---------------------------- MODULE Spec2Model ----------------------------
(***************************************************************************)
(* Verification model of the Gutenberg ingestion pipeline.                 *)
(*                                                                         *)
(*   SpecQuality : the quality scorer  (scripts/lib/quality-checker.ts)    *)
(*   SpecProcess : one run of processBook  (scripts/lib/process-book.ts)   *)
(*   SpecBatch   : the batch driver loop  (scripts/pg-batch.ts)            *)
(*                                                                         *)
(* Strings are sequences of Unicode code points (naturals), so that the    *)
(* regular expressions and string methods of the source are computed,      *)
(* not assumed.                                                            *)
(***************************************************************************)
EXTENDS Integers, Sequences, FiniteSets, TLC

VARIABLES
    \* ---- quality scorer: the arguments of the last call and its result
    qBook,        \* BookData: [wordCount, hasCover]
    qChapters,    \* ChapterData[]: sequence of [title, wordCount, htmlContent]
    qResult,      \* QualityResult returned for (qBook, qChapters)
    qLast,        \* how the arguments were produced: "init", "append", "degrade"
    qPrev,        \* the score returned for the arguments before the last change
    \* ---- one run of processBook(gutenbergId, jobId, jobAttempts)
    pc,           \* the statement the run is at
    jobId,        \* argument: "" when the run has no job (undefined)
    jobAttempts,  \* argument: null when not passed
    tempFile,     \* let tempFile = ''
    fileOnDisk,   \* whether the file named by tempFile exists
    attempt,      \* the download loop counter
    epub,         \* what parsing found: [cover, images, chapters]
    loop,         \* position in the upload loops: [image, chapter, inline]
    err,          \* the error caught by the catch block
    completion,   \* how the try/catch completes: "", "return", "throw"
    outcome,      \* what the caller sees: "running", "returned", "threw"
    trace,        \* every external call the run made, in order
    jobRec,       \* the job record held by the job tracker
    \* ---- the batch driver (pg-batch.ts)
    mainPc,         \* where main() is: at a synchronous test or awaiting a promise
    iter,           \* the loop variable i
    isShuttingDown, \* the flag set by the SIGINT/SIGTERM handlers
    processed,      \* let processed = 0
    failed,         \* let failed = 0
    queued,         \* number of jobs the tracker holds with status queued
    started,        \* the processBook calls started: the flag's value at each start
    log,            \* what main() did, in order: "pull", "pullFailed", "empty",
                    \* "start", "ok", "threw", "sleep"
    \* ---- one call of splitHtmlSegments(html)
    sHtml,          \* argument
    sI,             \* let i = 0 (here 1-based: the index of the next code point)
    sSegs,          \* const segments = []
    sPc,            \* "loop" while the while loop runs, "done" after the return
    \* ---- one text transform called on a string, then on its own result
    tFn,            \* the exported function that is called
    tIn,            \* the string the first call was given
    tArg,           \* the argument of the call that is running
    tCur,           \* the function's local `result` / `s` / `cleaned`
    tPc,            \* the statement the call is at; "return" once it has returned
    tRun,           \* 1 for the first call, 2 for the call on the first result
    tSegs,          \* transformTextNodes: const segments, mapped so far
    tSeg,           \* the index of the segment the map callback is called on
    tStep,          \* the statement of the callback that is next
    \* ---- extractChapters(epub) and the chapter records made of its result
    eToc,           \* epub.toc
    eI,             \* the loop variable i (here 1-based)
    eChapters,      \* const chapters: ParsedChapter[]
    eCleaned,       \* processBook: cleanedChapters
    eEntries,       \* processBook: chapterEntries
    eCreated,       \* the chapter rows the metadata store holds for the book
    ePc,            \* "extractChapters", "cleaning", "uploading", "done", "failed"
    \* ---- one run of pg-sync-readmigo.ts
    gBooks,         \* the book rows of the metadata store, by book id
    gDryRun,        \* DRY_RUN
    gLimit,         \* LIMIT
    gList,          \* let books: the ids of the books the script was given
    gK,             \* the position of `book` in books
    gSynced,        \* let synced = 0
    gFailed,        \* let failed = 0
    gReadmigo,      \* the imports Readmigo accepted: the book and its row then
    gPc,            \* "fetch", "loop", "import", "update", "done", "exit"
    \* ---- processBook from the cleaning loop to the last status update
    kEpub,          \* what was parsed: [cover, images (hrefs), chapters (raw)]
    kCleaned,       \* cleanedChapters
    kQuality,       \* const quality; null before the check
    kI,             \* the index of the loop that is running (1-based)
    kJ,             \* the index of the base64 image loop inside it
    kLog,           \* the calls made to the object store and the metadata store
    kDb,            \* the rows of the metadata store: [book, chapters]
    kPc,            \* the statement the run is at; "returned" or "threw" at its end
    \* ---- runs of pg-discover.ts against the metadata store
    dBooks,         \* the Gutenberg ids that have a book row
    dJobs,          \* the rows of process_jobs, as Gutenberg ids in insertion order
    dLimit,         \* DISCOVER_LIMIT
    dDryRun,        \* DRY_RUN
    dRun,           \* the number of the run
    dPage,          \* let page
    dDiscovered,    \* let discovered
    dConsecutive,   \* let consecutiveAllExist
    dNewBooks,      \* const newBooks, what the for loop has still to visit
    dCreated,       \* the ids this run has created a job for
    dPc             \* "while", "check", "for", "sleep", "exited", "idle"

qvars == <<qBook, qChapters, qResult, qLast, qPrev>>

pvars == <<pc, jobId, jobAttempts, tempFile, fileOnDisk, attempt, epub, loop, err,
           completion, outcome, trace, jobRec>>

bvars == <<mainPc, iter, isShuttingDown, processed, failed, queued, started, log>>

svars == <<sHtml, sI, sSegs, sPc>>

\* the variables of the components added after the first three
tvars == <<tFn, tIn, tArg, tCur, tPc, tRun, tSegs, tSeg, tStep>>

evars == <<eToc, eI, eChapters, eCleaned, eEntries, eCreated, ePc>>

gvars == <<gBooks, gDryRun, gLimit, gList, gK, gSynced, gFailed, gReadmigo, gPc>>

kvars == <<kEpub, kCleaned, kQuality, kI, kJ, kLog, kDb, kPc>>

dvars == <<dBooks, dJobs, dLimit, dDryRun, dRun, dPage, dDiscovered, dConsecutive,
           dNewBooks, dCreated, dPc>>

xvars == <<svars, tvars, evars, gvars, kvars, dvars>>

vars == <<qBook, qChapters, qResult, qLast, qPrev,
          pc, jobId, jobAttempts, tempFile, fileOnDisk, attempt, epub, loop, err,
          completion, outcome, trace, jobRec,
          mainPc, iter, isShuttingDown, processed, failed, queued, started, log,
          sHtml, sI, sSegs, sPc,
          tFn, tIn, tArg, tCur, tPc, tRun, tSegs, tSeg, tStep,
          eToc, eI, eChapters, eCleaned, eEntries, eCreated, ePc,
          gBooks, gDryRun, gLimit, gList, gK, gSynced, gFailed, gReadmigo, gPc,
          kEpub, kCleaned, kQuality, kI, kJ, kLog, kDb, kPc,
          dBooks, dJobs, dLimit, dDryRun, dRun, dPage, dDiscovered, dConsecutive,
          dNewBooks, dCreated, dPc>>

-----------------------------------------------------------------------------
(* Bounds of the model *)

MaxChapters == 5

\* images of one kind in a processed book: files of the EPUB manifest, and
\* inline base64 images of one chapter
MaxImages == 1

\* chapters of a processed book
MaxBookChapters == 1

\* --max-books of the batch driver (10 when not given)
MaxBooks == 3

\* jobs queued when the batch starts
MaxQueued == 3

\* length of the argument of splitHtmlSegments
MaxHtmlLen == 5

-----------------------------------------------------------------------------
(* Generic helpers *)

null == -1

Min(S) == CHOOSE x \in S : \A y \in S : x <= y

Max2(a, b) == IF a >= b THEN a ELSE b

Min2(a, b) == IF a <= b THEN a ELSE b

RECURSIVE SumSeq(_)
SumSeq(s) == IF s = <<>> THEN 0 ELSE Head(s) + SumSeq(Tail(s))

\* Array.prototype.filter
RECURSIVE SelectSeqP(_, _)
SelectSeqP(s, keep) ==
    IF s = <<>> THEN <<>>
    ELSE IF Head(s) \in keep THEN <<Head(s)>> \o SelectSeqP(Tail(s), keep)
         ELSE SelectSeqP(Tail(s), keep)

\* [...a].sort((a, b) => a - b) on numbers: insertion sort
RECURSIVE InsertSorted(_, _)
InsertSorted(s, x) ==
    IF s = <<>> THEN <<x>>
    ELSE IF x < Head(s) THEN <<x>> \o s
         ELSE <<Head(s)>> \o InsertSorted(Tail(s), x)

RECURSIVE SortNums(_)
SortNums(s) == IF s = <<>> THEN <<>> ELSE InsertSorted(SortNums(Tail(s)), Head(s))

-----------------------------------------------------------------------------
(* Character classes of the JavaScript regular expressions and string      *)
(* methods used by the scorer, over code points.                           *)

\* \s and String.prototype.trim: WhiteSpace and LineTerminator code points
IsSpace(c) ==
    \/ c \in {9, 10, 11, 12, 13, 32, 160, 5760, 8232, 8233, 8239, 8287, 12288, 65279}
    \/ c \in 8192..8202

\* \d
IsDigit(c) == c \in 48..57

\* \w  ([A-Za-z0-9_])
IsWordChar(c) == c \in 48..57 \/ c \in 65..90 \/ c \in 97..122 \/ c = 95

\* String.prototype.toLowerCase on one code point (ASCII and Latin-1 letters)
LowerChar(c) ==
    IF c \in 65..90 THEN c + 32
    ELSE IF c \in 192..222 /\ c # 215 THEN c + 32
    ELSE c

\* String.prototype.toUpperCase on one ASCII code point
UpperChar(c) == IF c \in 97..122 THEN c - 32 ELSE c

toLowerCase(s) == [i \in 1..Len(s) |-> LowerChar(s[i])]

toUpperCase(s) == [i \in 1..Len(s) |-> UpperChar(s[i])]

\* String.prototype.trim
trim(s) ==
    LET keep == {i \in 1..Len(s) : ~IsSpace(s[i])}
    IN  IF keep = {} THEN <<>>
        ELSE SubSeq(s, Min(keep), CHOOSE x \in keep : \A y \in keep : y <= x)

\* parseInt(digits, 10) on a run of decimal digits
RECURSIVE parseInt(_)
parseInt(d) ==
    IF d = <<>> THEN 0
    ELSE 10 * parseInt(SubSeq(d, 1, Len(d) - 1)) + (d[Len(d)] - 48)

\* \b at the position before index p (p in 1..Len(s)+1)
WordBoundary(s, p) ==
    LET before == p > 1 /\ IsWordChar(s[p - 1])
        after  == p <= Len(s) /\ IsWordChar(s[p])
    IN  before # after

\* case-insensitive literal at index i (flag i; the literal is lower case ASCII)
MatchLit(s, i, lit) ==
    /\ i + Len(lit) - 1 <= Len(s)
    /\ \A k \in 1..Len(lit) : LowerChar(s[i + k - 1]) = lit[k]

\* end (exclusive) of the maximal run of whitespace / digits / word characters
\* starting at index p
SpaceRunEnd(s, p) == Min({q \in p..(Len(s) + 1) : q = Len(s) + 1 \/ ~IsSpace(s[q])})

DigitRunEnd(s, p) == Min({q \in p..(Len(s) + 1) : q = Len(s) + 1 \/ ~IsDigit(s[q])})

WordRunEnd(s, p) == Min({q \in p..(Len(s) + 1) : q = Len(s) + 1 \/ ~IsWordChar(s[q])})

-----------------------------------------------------------------------------
(* quality-checker.ts *)

\* one pattern of mojibakePatterns matching at index i of text
MojibakeAt(text, i) ==
    LET c    == text[i]
        has2 == i + 1 <= Len(text)
        n    == IF has2 THEN text[i + 1] ELSE null
    IN  \/ c = 195 /\ has2 /\ n \in {164, 182, 188, 169, 168, 32}
        \/ c = 226 /\ has2 /\ n = 8364
        \/ c = 194 /\ has2 /\ n = 32
        \/ c = 65533
        \/ c \in 128..159
        \/ c = 195 /\ has2 /\ n \in 128..191
        \/ c = 194 /\ has2 /\ ~IsSpace(n)

hasMojibake(text) == \E i \in 1..Len(text) : MojibakeAt(text, i)

\* /\b<lit>\s+(\d+)\b/i anchored at index i: the captured digits, or <<>>
ArabicAt(s, i, lit) ==
    LET a == i + Len(lit)
        b == SpaceRunEnd(s, a)
        e == DigitRunEnd(s, b)
    IN  IF /\ WordBoundary(s, i)
           /\ MatchLit(s, i, lit)
           /\ b > a
           /\ e > b
           /\ WordBoundary(s, e)
        THEN SubSeq(s, b, e - 1)
        ELSE <<>>

\* title.match(/\b<lit>\s+(\d+)\b/i): capture of the leftmost match, or <<>>
ArabicMatch(s, lits) ==
    LET hits == {i \in 1..Len(s) : \E l \in lits : ArabicAt(s, i, l) # <<>>}
    IN  IF hits = {} THEN <<>>
        ELSE LET i == Min(hits)
                 l == CHOOSE l \in lits : ArabicAt(s, i, l) # <<>>
             IN  ArabicAt(s, i, l)

Lit_chapter == <<99, 104, 97, 112, 116, 101, 114>>

Lit_ch == <<99, 104>>

Lit_chDot == <<99, 104, 46>>

\* the strings of X{0,2}(?:IX|IV|V?I{0,3}), in upper case
RomanLanguage ==
    LET X == 88  I == 73  V == 86
    IN  { tens \o ones :
            tens \in {<<>>, <<X>>, <<X, X>>},
            ones \in {<<I, X>>, <<I, V>>, <<>>, <<I>>, <<I, I>>, <<I, I, I>>,
                      <<V>>, <<V, I>>, <<V, I, I>>, <<V, I, I, I>>} }

romanMap ==
    LET X == 88  I == 73  V == 86
    IN  (<<I>> :> 1) @@ (<<I, I>> :> 2) @@ (<<I, I, I>> :> 3) @@ (<<I, V>> :> 4)
        @@ (<<V>> :> 5) @@ (<<V, I>> :> 6) @@ (<<V, I, I>> :> 7)
        @@ (<<V, I, I, I>> :> 8) @@ (<<I, X>> :> 9) @@ (<<X>> :> 10)
        @@ (<<X, I>> :> 11) @@ (<<X, I, I>> :> 12) @@ (<<X, I, I, I>> :> 13)
        @@ (<<X, I, V>> :> 14) @@ (<<X, V>> :> 15) @@ (<<X, V, I>> :> 16)
        @@ (<<X, V, I, I>> :> 17) @@ (<<X, V, I, I, I>> :> 18)
        @@ (<<X, I, X>> :> 19) @@ (<<X, X>> :> 20)

\* /\bchapter\s+(X{0,2}(?:IX|IV|V?I{0,3}))\b/i anchored at index i:
\* [hit |-> whether it matches, cap |-> the captured group].  The group is made
\* of word characters only, so the closing \b makes it either the whole word
\* that follows the whitespace, or empty in front of a word of another shape.
RomanAt(s, i) ==
    LET a == i + Len(Lit_chapter)
        b == SpaceRunEnd(s, a)
        e == WordRunEnd(s, b)
        w == SubSeq(s, b, e - 1)
    IN  IF WordBoundary(s, i) /\ MatchLit(s, i, Lit_chapter) /\ b > a /\ e > b
        THEN [hit |-> TRUE,
              cap |-> IF toUpperCase(w) \in RomanLanguage THEN w ELSE <<>>]
        ELSE [hit |-> FALSE, cap |-> <<>>]

extractChapterNumber(title) ==
    LET arabic1 == ArabicMatch(title, {Lit_chapter})
        arabic  == IF arabic1 # <<>> THEN arabic1
                   ELSE ArabicMatch(title, {Lit_chDot, Lit_ch})
        hits    == {i \in 1..Len(title) : RomanAt(title, i).hit}
    IN  IF arabic # <<>> THEN parseInt(arabic)
        ELSE IF hits = {} THEN null
        ELSE LET key == toUpperCase(RomanAt(title, Min(hits)).cap)
             IN  IF key \in DOMAIN romanMap THEN romanMap[key] ELSE null

-----------------------------------------------------------------------------
(* The titles and chapter bodies the calls are made with *)

T_Chapter1 == <<67, 104, 97, 112, 116, 101, 114, 32, 49>>            \* "Chapter 1"

T_Chapter2 == <<67, 104, 97, 112, 116, 101, 114, 32, 50>>            \* "Chapter 2"

T_Chapter3 == <<67, 104, 97, 112, 116, 101, 114, 32, 51>>            \* "Chapter 3"

T_chapter1Padded == <<32, 99, 104, 97, 112, 116, 101, 114, 32, 49, 32>> \* " chapter 1 "

T_ChapterIV == <<67, 104, 97, 112, 116, 101, 114, 32, 73, 86>>       \* "Chapter IV"

T_Ch7 == <<67, 104, 46, 32, 55>>                                     \* "Ch. 7"

T_Preface == <<80, 114, 101, 102, 97, 99, 101>>                      \* "Preface"

T_Empty == <<>>                                                      \* ""

H_Clean == <<60, 112, 62, 79, 75, 60, 47, 112, 62>>                  \* "<p>OK</p>"

H_Mojibake == <<99, 97, 102, 195, 169>>                              \* "cafÃ©"

Titles == {T_Chapter1, T_Chapter2, T_Chapter3, T_chapter1Padded, T_ChapterIV,
           T_Ch7, T_Preface, T_Empty}

Htmls == {H_Clean, H_Mojibake}

\* the per-chapter string computations of checkBookQuality, evaluated once
\* for each title and body above
chapterNumberOf == [t \in Titles |-> extractChapterNumber(t)]

normalizedTitleOf == [t \in Titles |-> toLowerCase(trim(t))]

mojibakeIn == [h \in Htmls |-> hasMojibake(h)]

\* titles.filter(t => { if (titleSet.has(t)) return true; titleSet.add(t); ... })
RECURSIVE duplicateTitles(_, _)
duplicateTitles(titles, titleSet) ==
    IF titles = <<>> THEN <<>>
    ELSE IF Head(titles) \in titleSet
         THEN <<Head(titles)>> \o duplicateTitles(Tail(titles), titleSet)
         ELSE duplicateTitles(Tail(titles), titleSet \cup {Head(titles)})

\* [...new Set(a)]: first occurrences, in order
RECURSIVE uniqueSeq(_, _)
uniqueSeq(a, seen) ==
    IF a = <<>> THEN <<>>
    ELSE IF Head(a) \in seen THEN uniqueSeq(Tail(a), seen)
         ELSE <<Head(a)>> \o uniqueSeq(Tail(a), seen \cup {Head(a)})

\* Array.prototype.join(', ') on strings
RECURSIVE joinComma(_)
joinComma(a) ==
    IF a = <<>> THEN <<>>
    ELSE IF Len(a) = 1 THEN a[1]
         ELSE a[1] \o <<44, 32>> \o joinComma(Tail(a))

\* gapsOf with the step test off by one (> 0 for > 1)
gapsOf_OffByOne(sorted) ==
    LET idx == {i \in 2..Len(sorted) : sorted[i] - sorted[i - 1] > 0}
        RECURSIVE Walk(_)
        Walk(i) == IF i > Len(sorted) THEN <<>>
                   ELSE IF i \in idx THEN <<sorted[i - 1] + 1>> \o Walk(i + 1)
                        ELSE Walk(i + 1)
    IN  Walk(2)

\* the gaps[] of the numbering check: sorted[i-1] + 1 wherever the step is > 1
gapsOf(sorted) ==
    LET idx == {i \in 2..Len(sorted) : sorted[i] - sorted[i - 1] > 1}
        RECURSIVE Walk(_)
        Walk(i) == IF i > Len(sorted) THEN <<>>
                   ELSE IF i \in idx THEN <<sorted[i - 1] + 1>> \o Walk(i + 1)
                        ELSE Walk(i + 1)
    IN  Walk(2)

\* an entry of issues[]: the message template and its interpolated values
Issue(kind, arg) == <<kind, arg>>

\* Clamp without the lower bound
Clamp_NoFloor(score) == Min2(100, score)

Clamp(score) == Max2(0, Min2(100, score))

PassMark == 60

\* the running state of checkBookQuality: [score, issues]
Penalize(acc, points, issue) ==
    [score |-> acc.score - points, issues |-> Append(acc.issues, issue)]

\* Chapter count check
chapterCountCheck(acc, chapters) ==
    IF Len(chapters) = 0
    THEN Penalize(acc, 50, Issue("No chapters extracted", <<>>))
    ELSE IF Len(chapters) < 2
         THEN Penalize(acc, 15, Issue("Very few chapters", <<Len(chapters)>>))
         ELSE acc

\* Word count check
wordCountCheck(acc, book) ==
    IF book.wordCount < 1000
    THEN Penalize(acc, 30, Issue("Very low word count", <<book.wordCount>>))
    ELSE IF book.wordCount < 5000
         THEN Penalize(acc, 10, Issue("Low word count", <<book.wordCount>>))
         ELSE acc

\* emptyChaptersCheck charging the penalty once instead of once per chapter
emptyChaptersCheck_Once(acc, chapters) ==
    LET emptyChapters == {i \in 1..Len(chapters) : chapters[i].wordCount < 50}
    IN  IF Cardinality(emptyChapters) > 0
        THEN [score |-> acc.score - 5,
              issues |-> Append(acc.issues,
                                <<"near-empty chapters (< 50 words)",
                                  <<Cardinality(emptyChapters)>>>>)]
        ELSE acc

\* Empty chapters
emptyChaptersCheck(acc, chapters) ==
    LET emptyChapters == {i \in 1..Len(chapters) : chapters[i].wordCount < 50}
    IN  IF Cardinality(emptyChapters) > 0
        THEN Penalize(acc, Cardinality(emptyChapters) * 5,
                      Issue("near-empty chapters (< 50 words)",
                            <<Cardinality(emptyChapters)>>))
        ELSE acc

\* coverCheck with the test inverted
coverCheck_Inverted(acc, book) ==
    IF book.hasCover
    THEN [score |-> acc.score - 10,
          issues |-> Append(acc.issues, <<"No cover image", <<>>>>)]
    ELSE acc

\* Cover check
coverCheck(acc, book) ==
    IF ~book.hasCover THEN Penalize(acc, 10, Issue("No cover image", <<>>)) ELSE acc

\* Encoding check (all chapters): the loop breaks at the first match
encodingCheck(acc, chapters) ==
    LET moji == {i \in 1..Len(chapters) : mojibakeIn[chapters[i].htmlContent]}
    IN  IF moji # {}
        THEN Penalize(acc, 15, Issue("Encoding issues detected in chapter",
                                     chapters[Min(moji)].title))
        ELSE acc

\* 1. Duplicate chapter titles
duplicateTitlesCheck(acc, chapters) ==
    LET n      == Len(chapters)
        normed == [i \in 1..n |-> normalizedTitleOf[chapters[i].title]]
        titles == SelectSeqP(normed, {normed[i] : i \in 1..n} \ {<<>>})
        dups   == duplicateTitles(titles, {})
    IN  IF Len(dups) > 0
        THEN Penalize(acc, 10, Issue("Duplicate chapter titles detected",
                                     joinComma(uniqueSeq(dups, {}))))
        ELSE acc

\* 2. Last chapter truncation detection.  On naturals
\*    last < (sum / n) * 0.3 is 10 * n * last < 3 * sum, and
\*    Math.round(sum / n) is (2 * sum + n) div (2 * n).
truncationCheck(acc, chapters) ==
    LET n    == Len(chapters)
        sum  == SumSeq([i \in 1..n |-> chapters[i].wordCount])
        last == chapters[n].wordCount
    IN  IF n >= 3 /\ 10 * n * last < 3 * sum /\ last < 200
        THEN Penalize(acc, 10, Issue("Last chapter may be truncated",
                                     <<last, (2 * sum + n) \div (2 * n)>>))
        ELSE acc

\* .filter((n): n is number => n !== null)
numberedOf(nums) == SelectSeqP(nums, {nums[i] : i \in 1..Len(nums)} \ {null})

\* if (numberedChapters.length >= 3) { sort; collect gaps; if (gaps.length > 0) ... }
sequenceIssue(acc, numberedChapters) ==
    IF /\ Len(numberedChapters) >= 3
       /\ Len(gapsOf(SortNums(numberedChapters))) > 0
    THEN Penalize(acc, 5, Issue("Chapter sequence gaps detected",
                                gapsOf(SortNums(numberedChapters))))
    ELSE acc

\* 3. Numbered chapter sequence check
sequenceCheck(acc, chapters) ==
    sequenceIssue(acc,
        numberedOf([i \in 1..Len(chapters) |-> chapterNumberOf[chapters[i].title]]))

\* score = Math.max(0, Math.min(100, score));
\* return { score, issues, pass: score >= 60 }
Settle(acc) ==
    [score |-> Clamp(acc.score), issues |-> acc.issues,
     pass |-> Clamp(acc.score) >= PassMark]

checkBookQuality(book, chapters) ==
    Settle(
      sequenceCheck(
        truncationCheck(
          duplicateTitlesCheck(
            encodingCheck(
              coverCheck(
                emptyChaptersCheck(
                  wordCountCheck(
                    chapterCountCheck([score |-> 100, issues |-> <<>>], chapters),
                    book),
                  chapters),
                book),
              chapters),
            chapters),
          chapters),
        chapters))

-----------------------------------------------------------------------------
(* The penalty conditions as the scoring table states them, told from the  *)
(* arguments alone.  TitleNumberTable and SameTitle say what the titles    *)
(* above mean to a reader.                                                 *)

TitleNumberTable ==
    (T_Chapter1 :> 1) @@ (T_chapter1Padded :> 1) @@ (T_Chapter2 :> 2)
    @@ (T_Chapter3 :> 3) @@ (T_ChapterIV :> 4) @@ (T_Ch7 :> 7)

SameTitle(a, b) ==
    /\ a # T_Empty
    /\ b # T_Empty
    /\ \/ a = b
       \/ {a, b} = {T_Chapter1, T_chapter1Padded}

NearEmptyCount(chapters) ==
    Cardinality({i \in 1..Len(chapters) : chapters[i].wordCount < 50})

SigMojibake(chapters) ==
    \E i \in 1..Len(chapters) : chapters[i].htmlContent = H_Mojibake

SigDuplicateTitles(chapters) ==
    \E i, j \in 1..Len(chapters) :
        i < j /\ SameTitle(chapters[i].title, chapters[j].title)

SigTruncated(chapters) ==
    LET n == Len(chapters)
    IN  /\ n >= 3
        /\ chapters[n].wordCount < 200
        /\ 10 * n * chapters[n].wordCount
             < 3 * SumSeq([i \in 1..n |-> chapters[i].wordCount])

SigNumberingGap(chapters) ==
    LET numbered == {i \in 1..Len(chapters) : chapters[i].title \in DOMAIN TitleNumberTable}
        values   == {TitleNumberTable[chapters[i].title] : i \in numbered}
    IN  /\ Cardinality(numbered) >= 3
        /\ \E x \in values, z \in values :
              x < z /\ \E y \in (x + 1)..(z - 1) : y \notin values

\* the penalties the table charges for these arguments
ExpectedPenalty(book, chapters) ==
      (IF Len(chapters) = 0 THEN 50 ELSE 0)
    + (IF Len(chapters) = 1 THEN 15 ELSE 0)
    + (IF book.wordCount < 1000 THEN 30 ELSE 0)
    + (IF book.wordCount \in 1000..4999 THEN 10 ELSE 0)
    + 5 * NearEmptyCount(chapters)
    + (IF ~book.hasCover THEN 10 ELSE 0)
    + (IF SigMojibake(chapters) THEN 15 ELSE 0)
    + (IF SigDuplicateTitles(chapters) THEN 10 ELSE 0)
    + (IF SigTruncated(chapters) THEN 10 ELSE 0)
    + (IF SigNumberingGap(chapters) THEN 5 ELSE 0)

\* the issues the table triggers for these arguments, in evaluation order
ExpectedIssueKinds(book, chapters) ==
    LET When(c, kind) == IF c THEN <<kind>> ELSE <<>>
    IN     When(Len(chapters) = 0, "No chapters extracted")
        \o When(Len(chapters) = 1, "Very few chapters")
        \o When(book.wordCount < 1000, "Very low word count")
        \o When(book.wordCount \in 1000..4999, "Low word count")
        \o When(NearEmptyCount(chapters) > 0, "near-empty chapters (< 50 words)")
        \o When(~book.hasCover, "No cover image")
        \o When(SigMojibake(chapters), "Encoding issues detected in chapter")
        \o When(SigDuplicateTitles(chapters), "Duplicate chapter titles detected")
        \o When(SigTruncated(chapters), "Last chapter may be truncated")
        \o When(SigNumberingGap(chapters), "Chapter sequence gaps detected")

IssueKinds(result) == [i \in 1..Len(result.issues) |-> result.issues[i][1]]

-----------------------------------------------------------------------------
(* Calls of checkBookQuality.  The arguments are built one change at a     *)
(* time and every step is one call on the arguments it produced.           *)

Chapter(t, w, h) == [title |-> t, wordCount |-> w, htmlContent |-> h]

\* the chapters a call may be given
ChapterPool ==
    { Chapter(T_Chapter1, 600, H_Clean),
      Chapter(T_Chapter2, 600, H_Clean),
      Chapter(T_Chapter3, 600, H_Clean),
      Chapter(T_chapter1Padded, 40, H_Clean),
      Chapter(T_ChapterIV, 40, H_Clean),
      Chapter(T_Empty, 5, H_Mojibake) }

BookWordCounts == {900, 1800, 6000}

Books == [wordCount : BookWordCounts, hasCover : BOOLEAN]

QCall(book, chapters, how) ==
    /\ qBook' = book
    /\ qChapters' = chapters
    /\ qResult' = checkBookQuality(book, chapters)
    /\ qLast' = how
    /\ qPrev' = qResult.score
    /\ UNCHANGED pvars
    /\ UNCHANGED <<bvars, xvars>>

QInit ==
    /\ qBook \in Books
    /\ qChapters = <<>>
    /\ qResult = checkBookQuality(qBook, <<>>)
    /\ qLast = "init"
    /\ qPrev = qResult.score

\* one more chapter
QAppend ==
    /\ qLast # "degrade"
    /\ Len(qChapters) < MaxChapters
    /\ \E c \in ChapterPool : QCall(qBook, Append(qChapters, c), "append")

\* arguments that trigger no penalty
QClean == qLast # "degrade" /\ ExpectedPenalty(qBook, qChapters) = 0

\* the changes that make one more penalizable condition hold, applied to
\* arguments that trigger no penalty, everything else held equal
QRemoveCover ==
    /\ QClean
    /\ QCall([qBook EXCEPT !.hasCover = FALSE], qChapters, "degrade")

QLowerWordCount ==
    /\ QClean
    /\ \E w \in {0, 900, 1800} :
          QCall([qBook EXCEPT !.wordCount = w], qChapters, "degrade")

QNearEmpty ==
    /\ QClean
    /\ \E i \in 1..Len(qChapters), w \in {0, 49} :
          QCall(qBook, [qChapters EXCEPT ![i].wordCount = w], "degrade")

QDuplicateTitle ==
    /\ QClean
    /\ \E i, j \in 1..Len(qChapters) :
          /\ i # j
          /\ QCall(qBook, [qChapters EXCEPT ![i].title = qChapters[j].title],
                   "degrade")

QMojibake ==
    /\ QClean
    /\ \E i \in 1..Len(qChapters) :
          QCall(qBook, [qChapters EXCEPT ![i].htmlContent = H_Mojibake], "degrade")

QTruncateLast ==
    /\ QClean
    /\ Len(qChapters) >= 1
    /\ \E w \in {40, 100, 199} :
          QCall(qBook, [qChapters EXCEPT ![Len(qChapters)].wordCount = w],
                "degrade")

QNumberingGap ==
    /\ QClean
    /\ \E i \in 1..Len(qChapters), t \in Titles :
          QCall(qBook, [qChapters EXCEPT ![i].title = t], "degrade")

QNext ==
    \/ QAppend
    \/ QRemoveCover
    \/ QLowerWordCount
    \/ QNearEmpty
    \/ QDuplicateTitle
    \/ QMojibake
    \/ QTruncateLast
    \/ QNumberingGap

-----------------------------------------------------------------------------
(* process-book.ts: one run of processBook *)

MaxDownloadAttempts == 3

BackoffMs == 3000

NoError == [message |-> "", data |-> ""]

Error(message) == [message |-> message, data |-> ""]

\* an error of the HTTP client that carries the response body
HttpError(message, data) == [message |-> message, data |-> data]

\* an entry of the trace: the call, a number that identifies it (attempt,
\* index, milliseconds, attempts), whether it succeeded, the message it carried
Event(ev, n, ok, msg) == [ev |-> ev, n |-> n, ok |-> ok, msg |-> msg]

StatusEvent(data, ok) ==
    Event("updateJob", data.attempts, ok, <<data.status>> \o data.errorMessage)

\* the body of a PUT /internal/jobs/:id; attempts = null and errorMessage = <<>>
\* stand for fields left out
JobUpdate(status) == [status |-> status, attempts |-> null, errorMessage |-> <<>>]

\* the tracker's record after a successful update
MergeJob(rec, data) ==
    [status       |-> data.status,
     attempts     |-> IF data.attempts = null THEN rec.attempts ELSE data.attempts,
     errorMessage |-> IF data.errorMessage = <<>> THEN rec.errorMessage
                      ELSE data.errorMessage]

\* updateJobSafe without its try/catch: a failing update is thrown into the
\* enclosing try (to the catch block, or out through finally when already there)
updateJobSafe_NoCatch(data, ok, next) ==
    IF jobId = ""
    THEN /\ pc' = next
         /\ UNCHANGED <<trace, jobRec, err, completion>>
    ELSE /\ trace' = Append(trace, StatusEvent(data, ok))
         /\ jobRec' = IF ok THEN MergeJob(jobRec, data) ELSE jobRec
         /\ IF ok
            THEN pc' = next /\ UNCHANGED <<err, completion>>
            ELSE IF pc = "catch"
                 THEN /\ pc' = "finally"
                      /\ err' = Error("updateJob failed")
                      /\ completion' = "throw"
                 ELSE /\ pc' = "catch"
                      /\ err' = Error("updateJob failed")
                      /\ UNCHANGED completion

\* updateJobSafe(jobId, data): returns at once without a job id; otherwise one
\* PUT to the tracker whose failure is logged and swallowed.  The run goes on
\* at `next` either way.
updateJobSafe(data, ok, next) ==
    /\ pc' = next
    /\ IF jobId = ""
       THEN UNCHANGED <<trace, jobRec>>
       ELSE /\ trace' = Append(trace, StatusEvent(data, ok))
            /\ jobRec' = IF ok THEN MergeJob(jobRec, data) ELSE jobRec
    /\ UNCHANGED <<err, completion>>

\* a statement of the try block throws e
Throw(e) ==
    /\ pc' = "catch"
    /\ err' = e

Call(ev, n, ok) == trace' = Append(trace, Event(ev, n, ok, <<>>))

PInit ==
    /\ pc = "reportDownloading"
    /\ \E run \in {<<"", null>>, <<"job-1", null>>, <<"job-1", 2>>} :
          jobId = run[1] /\ jobAttempts = run[2]
    /\ tempFile = ""
    /\ fileOnDisk = FALSE
    /\ attempt = 1
    /\ epub = [cover |-> FALSE, images |-> 0, chapters |-> <<>>]
    /\ loop = [image |-> 1, chapter |-> 1, inline |-> 1]
    /\ err = NoError
    /\ completion = ""
    /\ outcome = "running"
    /\ trace = <<>>
    /\ jobRec = [status |-> "queued",
                 attempts |-> IF jobAttempts = null THEN 0 ELSE jobAttempts,
                 errorMessage |-> <<>>]

\* line 73
ReportDownloading ==
    /\ pc = "reportDownloading"
    /\ \E ok \in BOOLEAN : updateJobSafe(JobUpdate("downloading"), ok, "fetch")
    /\ UNCHANGED <<jobId, jobAttempts, tempFile, fileOnDisk, attempt, epub, loop,
                   outcome>>
    /\ UNCHANGED qvars
    /\ UNCHANGED <<bvars, xvars>>

\* lines 75-83: fetchBookById returns null on any failure; getEpubUrl may be
\* null (the trace entry has n = 1 when the book has an EPUB format)
FetchBook ==
    /\ pc = "fetch"
    /\ \E r \in {"ok", "null", "noEpub"} :
          /\ Call("fetchBookById", IF r = "ok" THEN 1 ELSE 0, r # "null")
          /\ CASE r = "ok"     -> pc' = "download" /\ UNCHANGED err
               [] r = "null"   -> Throw(Error("Book not found on Gutendex"))
               [] r = "noEpub" -> Throw(Error("No EPUB format available"))
    /\ UNCHANGED <<jobId, jobAttempts, tempFile, fileOnDisk, attempt, epub, loop,
                   completion, outcome, jobRec>>
    /\ UNCHANGED qvars
    /\ UNCHANGED <<bvars, xvars>>

\* lines 92-104: one pass of the retry loop up to the wait
Download ==
    /\ pc = "download"
    /\ attempt <= MaxDownloadAttempts
    /\ \E ok \in BOOLEAN :
          /\ Call("download", attempt, ok)
          /\ IF ok THEN pc' = "write" /\ UNCHANGED err
             ELSE IF attempt = MaxDownloadAttempts
                  THEN Throw(Error("EPUB download failed after 3 attempts"))
                  ELSE pc' = "wait" /\ UNCHANGED err
    /\ UNCHANGED <<jobId, jobAttempts, tempFile, fileOnDisk, attempt, epub, loop,
                   completion, outcome, jobRec>>
    /\ UNCHANGED qvars
    /\ UNCHANGED <<bvars, xvars>>

\* the retry loop waiting the same 3000 ms after every failed attempt
Backoff_Constant ==
    /\ pc = "wait"
    /\ Call("wait", BackoffMs, TRUE)
    /\ attempt' = attempt + 1
    /\ pc' = "download"
    /\ UNCHANGED <<jobId, jobAttempts, tempFile, fileOnDisk, epub, loop, err,
                   completion, outcome, jobRec>>
    /\ UNCHANGED qvars
    /\ UNCHANGED <<bvars, xvars>>

\* line 105 and the loop increment
Backoff ==
    /\ pc = "wait"
    /\ Call("wait", BackoffMs * attempt, TRUE)
    /\ attempt' = attempt + 1
    /\ pc' = "download"
    /\ UNCHANGED <<jobId, jobAttempts, tempFile, fileOnDisk, epub, loop, err,
                   completion, outcome, jobRec>>
    /\ UNCHANGED qvars
    /\ UNCHANGED <<bvars, xvars>>

\* lines 109-110: tempFile is named, then written; a failing write may leave
\* a partial file behind or none (the trace entry has n = 1 when a file is left)
WriteTempFile ==
    /\ pc = "write"
    /\ tempFile' = "pg.epub"
    /\ \E r \in {"ok", "failedPartial", "failedNoFile"} :
          /\ Call("writeFileSync", IF r = "failedNoFile" THEN 0 ELSE 1, r = "ok")
          /\ fileOnDisk' = (r # "failedNoFile")
          /\ IF r = "ok" THEN pc' = "reportParsing" /\ UNCHANGED err
             ELSE Throw(Error("write failed"))
    /\ UNCHANGED <<jobId, jobAttempts, attempt, epub, loop, completion, outcome,
                   jobRec>>
    /\ UNCHANGED qvars
    /\ UNCHANGED <<bvars, xvars>>

\* line 115
ReportParsing ==
    /\ pc = "reportParsing"
    /\ \E ok \in BOOLEAN : updateJobSafe(JobUpdate("parsing"), ok, "parse")
    /\ UNCHANGED <<jobId, jobAttempts, tempFile, fileOnDisk, attempt, epub, loop,
                   outcome>>
    /\ UNCHANGED qvars
    /\ UNCHANGED <<bvars, xvars>>

\* lines 117-127: parseEpub, extractMetadata, extractChapters, extractCover,
\* extractImages; chapters are given by their number of inline images
ParseEpub ==
    /\ pc = "parse"
    /\ \/ /\ Call("parseEpub", 0, FALSE)
          /\ Throw(Error("parse failed"))
          /\ UNCHANGED epub
       \/ \E c \in BOOLEAN, i \in 0..MaxImages, n \in 0..MaxBookChapters :
            \E chs \in [1..n -> 0..MaxImages] :
                /\ Call("parseEpub", 0, TRUE)
                /\ epub' = [cover |-> c, images |-> i, chapters |-> chs]
                /\ pc' = "reportCleaning"
                /\ UNCHANGED err
    /\ UNCHANGED <<jobId, jobAttempts, tempFile, fileOnDisk, attempt, loop,
                   completion, outcome, jobRec>>
    /\ UNCHANGED qvars
    /\ UNCHANGED <<bvars, xvars>>

\* the run without its status update before cleaning
ReportCleaning_Missing ==
    /\ pc = "reportCleaning"
    /\ pc' = "clean"
    /\ UNCHANGED <<jobId, jobAttempts, tempFile, fileOnDisk, attempt, epub, loop,
                   err, completion, outcome, trace, jobRec>>
    /\ UNCHANGED qvars
    /\ UNCHANGED <<bvars, xvars>>

\* line 131
ReportCleaning ==
    /\ pc = "reportCleaning"
    /\ \E ok \in BOOLEAN : updateJobSafe(JobUpdate("cleaning"), ok, "clean")
    /\ UNCHANGED <<jobId, jobAttempts, tempFile, fileOnDisk, attempt, epub, loop,
                   outcome>>
    /\ UNCHANGED qvars
    /\ UNCHANGED <<bvars, xvars>>

\* lines 133-176: the text pipeline and the quality check, in memory
CleanChapters ==
    /\ pc = "clean"
    /\ pc' = "reportUploading"
    /\ UNCHANGED <<jobId, jobAttempts, tempFile, fileOnDisk, attempt, epub, loop,
                   err, completion, outcome, trace, jobRec>>
    /\ UNCHANGED qvars
    /\ UNCHANGED <<bvars, xvars>>

\* line 180
ReportUploading ==
    /\ pc = "reportUploading"
    /\ \E ok \in BOOLEAN : updateJobSafe(JobUpdate("uploading"), ok, "uploadEpub")
    /\ UNCHANGED <<jobId, jobAttempts, tempFile, fileOnDisk, attempt, epub, loop,
                   outcome>>
    /\ UNCHANGED qvars
    /\ UNCHANGED <<bvars, xvars>>

\* line 182
UploadEpub ==
    /\ pc = "uploadEpub"
    /\ \E ok \in BOOLEAN :
          /\ Call("uploadEpub", 0, ok)
          /\ IF ok
             THEN /\ pc' = IF epub.cover THEN "uploadCover" ELSE "uploadImages"
                  /\ UNCHANGED err
             ELSE Throw(Error("upload failed"))
    /\ UNCHANGED <<jobId, jobAttempts, tempFile, fileOnDisk, attempt, epub, loop,
                   completion, outcome, jobRec>>
    /\ UNCHANGED qvars
    /\ UNCHANGED <<bvars, xvars>>

\* lines 186-189
UploadCover ==
    /\ pc = "uploadCover"
    /\ \E ok \in BOOLEAN :
          /\ Call("uploadCover", 0, ok)
          /\ IF ok THEN pc' = "uploadImages" /\ UNCHANGED err
             ELSE Throw(Error("upload failed"))
    /\ UNCHANGED <<jobId, jobAttempts, tempFile, fileOnDisk, attempt, epub, loop,
                   completion, outcome, jobRec>>
    /\ UNCHANGED qvars
    /\ UNCHANGED <<bvars, xvars>>

\* lines 193-197: one pass of the manifest image loop
UploadImage ==
    /\ pc = "uploadImages"
    /\ loop.image <= epub.images
    /\ \E ok \in BOOLEAN :
          /\ Call("uploadImage", loop.image, ok)
          /\ IF ok
             THEN /\ loop' = [loop EXCEPT !.image = @ + 1]
                  /\ UNCHANGED <<pc, err>>
             ELSE Throw(Error("upload failed")) /\ UNCHANGED loop
    /\ UNCHANGED <<jobId, jobAttempts, tempFile, fileOnDisk, attempt, epub,
                   completion, outcome, jobRec>>
    /\ UNCHANGED qvars
    /\ UNCHANGED <<bvars, xvars>>

\* lines 198-204: the image map is built and the rewrite loop starts
BuildImageMap ==
    /\ pc = "uploadImages"
    /\ loop.image > epub.images
    /\ pc' = "rewrite"
    /\ loop' = [loop EXCEPT !.chapter = 1, !.inline = 1]
    /\ UNCHANGED <<jobId, jobAttempts, tempFile, fileOnDisk, attempt, epub, err,
                   completion, outcome, trace, jobRec>>
    /\ UNCHANGED qvars
    /\ UNCHANGED <<bvars, xvars>>

\* lines 210-213: one inline image of the current chapter
UploadInlineImage ==
    /\ pc = "rewrite"
    /\ loop.chapter <= Len(epub.chapters)
    /\ loop.inline <= epub.chapters[loop.chapter]
    /\ \E ok \in BOOLEAN :
          /\ Call("uploadInlineImage", loop.chapter, ok)
          /\ IF ok
             THEN /\ loop' = [loop EXCEPT !.inline = @ + 1]
                  /\ UNCHANGED <<pc, err>>
             ELSE Throw(Error("upload failed")) /\ UNCHANGED loop
    /\ UNCHANGED <<jobId, jobAttempts, tempFile, fileOnDisk, attempt, epub,
                   completion, outcome, jobRec>>
    /\ UNCHANGED qvars
    /\ UNCHANGED <<bvars, xvars>>

\* lines 215-224: placeholders and image paths of the current chapter are
\* rewritten in memory, then the next chapter; after the last one, line 228
RewriteChapter ==
    /\ pc = "rewrite"
    /\ IF loop.chapter <= Len(epub.chapters)
       THEN /\ loop.inline > epub.chapters[loop.chapter]
            /\ loop' = [loop EXCEPT !.chapter = @ + 1, !.inline = 1]
            /\ UNCHANGED pc
       ELSE /\ loop' = [loop EXCEPT !.chapter = 1]
            /\ pc' = "uploadChapters"
    /\ UNCHANGED <<jobId, jobAttempts, tempFile, fileOnDisk, attempt, epub, err,
                   completion, outcome, trace, jobRec>>
    /\ UNCHANGED qvars
    /\ UNCHANGED <<bvars, xvars>>

\* lines 228-239: one pass of the chapter upload loop
UploadChapter ==
    /\ pc = "uploadChapters"
    /\ loop.chapter <= Len(epub.chapters)
    /\ \E ok \in BOOLEAN :
          /\ Call("uploadChapter", loop.chapter, ok)
          /\ IF ok
             THEN /\ loop' = [loop EXCEPT !.chapter = @ + 1]
                  /\ UNCHANGED <<pc, err>>
             ELSE Throw(Error("upload failed")) /\ UNCHANGED loop
    /\ UNCHANGED <<jobId, jobAttempts, tempFile, fileOnDisk, attempt, epub,
                   completion, outcome, jobRec>>
    /\ UNCHANGED qvars
    /\ UNCHANGED <<bvars, xvars>>

\* lines 247-266: the HTTP client's error may carry the response body
CreateBook ==
    /\ pc = "uploadChapters"
    /\ loop.chapter > Len(epub.chapters)
    /\ \E r \in {"ok", "failed", "failedWithBody"} :
          /\ Call("createBook", 0, r = "ok")
          /\ CASE r = "ok" -> pc' = "createChapters" /\ UNCHANGED err
               [] r = "failed" -> Throw(Error("createBook failed"))
               [] r = "failedWithBody" ->
                    Throw(HttpError("createBook failed", "response body"))
    /\ UNCHANGED <<jobId, jobAttempts, tempFile, fileOnDisk, attempt, epub, loop,
                   completion, outcome, jobRec>>
    /\ UNCHANGED qvars
    /\ UNCHANGED <<bvars, xvars>>

\* lines 268-278; the route answers 400 to an empty chapters array
\* (internal.ts:77-79), so the call cannot succeed for a book without chapters
CreateChapters ==
    /\ pc = "createChapters"
    /\ \E r \in {"ok", "failed", "failedWithBody"} :
          /\ r = "ok" => Len(epub.chapters) > 0
          /\ Call("createChapters", Len(epub.chapters), r = "ok")
          /\ CASE r = "ok" -> pc' = "reportDone" /\ UNCHANGED err
               [] r = "failed" -> Throw(Error("createChapters failed"))
               [] r = "failedWithBody" ->
                    Throw(HttpError("createChapters failed", "response body"))
    /\ UNCHANGED <<jobId, jobAttempts, tempFile, fileOnDisk, attempt, epub, loop,
                   completion, outcome, jobRec>>
    /\ UNCHANGED qvars
    /\ UNCHANGED <<bvars, xvars>>

\* line 282
ReportDone ==
    /\ pc = "reportDone"
    /\ \E ok \in BOOLEAN : updateJobSafe(JobUpdate("done"), ok, "return")
    /\ UNCHANGED <<jobId, jobAttempts, tempFile, fileOnDisk, attempt, epub, loop,
                   outcome>>
    /\ UNCHANGED qvars
    /\ UNCHANGED <<bvars, xvars>>

\* lines 284-292: return { ... } leaves the try block through finally
Return ==
    /\ pc = "return"
    /\ completion' = "return"
    /\ pc' = "finally"
    /\ UNCHANGED <<jobId, jobAttempts, tempFile, fileOnDisk, attempt, epub, loop,
                   err, outcome, trace, jobRec>>
    /\ UNCHANGED qvars
    /\ UNCHANGED <<bvars, xvars>>

\* lines 295-297: err.response.data ? `${err.message}: ${data}` : err.message
errorMessageOf(e) == IF e.data # "" THEN <<e.message, e.data>> ELSE <<e.message>>

\* the catch block reporting the attempts it was given, not one more
CatchAndReportFailed_NoIncrement ==
    /\ pc = "catch"
    /\ \E ok \in BOOLEAN :
          updateJobSafe([status       |-> "failed",
                         errorMessage |-> errorMessageOf(err),
                         attempts     |-> (IF jobAttempts = null THEN 0
                                           ELSE jobAttempts)],
                        ok, "rethrow")
    /\ UNCHANGED <<jobId, jobAttempts, tempFile, fileOnDisk, attempt, epub, loop,
                   outcome>>
    /\ UNCHANGED qvars
    /\ UNCHANGED <<bvars, xvars>>

\* lines 293-304: the catch block reports failed, then rethrows
CatchAndReportFailed ==
    /\ pc = "catch"
    /\ \E ok \in BOOLEAN :
          updateJobSafe([status       |-> "failed",
                         errorMessage |-> errorMessageOf(err),
                         attempts     |-> (IF jobAttempts = null THEN 0
                                           ELSE jobAttempts) + 1],
                        ok, "rethrow")
    /\ UNCHANGED <<jobId, jobAttempts, tempFile, fileOnDisk, attempt, epub, loop,
                   outcome>>
    /\ UNCHANGED qvars
    /\ UNCHANGED <<bvars, xvars>>

\* line 304
Rethrow ==
    /\ pc = "rethrow"
    /\ completion' = "throw"
    /\ pc' = "finally"
    /\ UNCHANGED <<jobId, jobAttempts, tempFile, fileOnDisk, attempt, epub, loop,
                   err, outcome, trace, jobRec>>
    /\ UNCHANGED qvars
    /\ UNCHANGED <<bvars, xvars>>

\* the cleanup placed at the end of the try block instead of in finally
Finally_OnlyOnReturn ==
    /\ pc = "finally"
    /\ IF tempFile # "" /\ fileOnDisk /\ completion = "return"
       THEN \E ok \in BOOLEAN :
               /\ Call("unlinkSync", 0, ok)
               /\ fileOnDisk' = ~ok
       ELSE UNCHANGED <<trace, fileOnDisk>>
    /\ outcome' = IF completion = "return" THEN "returned" ELSE "threw"
    /\ pc' = "exit"
    /\ UNCHANGED <<jobId, jobAttempts, tempFile, attempt, epub, loop, err,
                   completion, jobRec>>
    /\ UNCHANGED qvars
    /\ UNCHANGED <<bvars, xvars>>

\* lines 305-314: the finally block; unlinkSync may throw, which is ignored.
\* Then the caller sees the return value or the rethrown error.
Finally ==
    /\ pc = "finally"
    /\ IF tempFile # "" /\ fileOnDisk
       THEN \E ok \in BOOLEAN :
               /\ Call("unlinkSync", 0, ok)
               /\ fileOnDisk' = ~ok
       ELSE UNCHANGED <<trace, fileOnDisk>>
    /\ outcome' = IF completion = "return" THEN "returned" ELSE "threw"
    /\ pc' = "exit"
    /\ UNCHANGED <<jobId, jobAttempts, tempFile, attempt, epub, loop, err,
                   completion, jobRec>>
    /\ UNCHANGED qvars
    /\ UNCHANGED <<bvars, xvars>>

PNext ==
    \/ ReportDownloading
    \/ FetchBook
    \/ Download
    \/ Backoff
    \/ WriteTempFile
    \/ ReportParsing
    \/ ParseEpub
    \/ ReportCleaning
    \/ CleanChapters
    \/ ReportUploading
    \/ UploadEpub
    \/ UploadCover
    \/ UploadImage
    \/ BuildImageMap
    \/ UploadInlineImage
    \/ RewriteChapter
    \/ UploadChapter
    \/ CreateBook
    \/ CreateChapters
    \/ ReportDone
    \/ Return
    \/ CatchAndReportFailed
    \/ Rethrow
    \/ Finally

-----------------------------------------------------------------------------
(* pg-batch.ts: the batch driver.  JavaScript runs main() without            *)
(* interruption between two awaits, so a signal handler runs only while      *)
(* main() awaits pullNextJob, processBook or sleep.                          *)

BInit ==
    /\ mainPc = "loopTest"
    /\ iter = 0
    /\ isShuttingDown = FALSE
    /\ processed = 0
    /\ failed = 0
    /\ queued \in 0..MaxQueued
    /\ started = <<>>
    /\ log = <<>>

\* process.on('SIGINT' | 'SIGTERM', () => { isShuttingDown = true })
Signal ==
    /\ mainPc \in {"pulling", "processing", "sleeping"}
    /\ isShuttingDown' = TRUE
    /\ UNCHANGED <<mainPc, iter, processed, failed, queued, started, log>>
    /\ UNCHANGED <<qvars, pvars, xvars>>

\* for (...; i < MAX_BOOKS && !isShuttingDown; ...) and the start of the pull
LoopTest ==
    /\ mainPc = "loopTest"
    /\ mainPc' = IF iter < MaxBooks /\ ~isShuttingDown THEN "pulling" ELSE "done"
    /\ log' = IF iter < MaxBooks /\ ~isShuttingDown THEN Append(log, "pull") ELSE log
    /\ UNCHANGED <<iter, isShuttingDown, processed, failed, queued, started>>
    /\ UNCHANGED <<qvars, pvars, xvars>>

\* PullFails with the rejection escaping the loop to main().catch
PullFails_Aborts ==
    /\ mainPc = "pulling"
    /\ mainPc' = "done"
    /\ log' = Append(log, "pullFailed")
    /\ UNCHANGED <<iter, isShuttingDown, processed, failed, queued, started>>
    /\ UNCHANGED <<qvars, pvars, xvars>>

\* await pullNextJob('queued', 1) rejects: the catch block counts a failure
PullFails ==
    /\ mainPc = "pulling"
    /\ failed' = failed + 1
    /\ mainPc' = "delayTest"
    /\ log' = Append(log, "pullFailed")
    /\ UNCHANGED <<iter, isShuttingDown, processed, queued, started>>
    /\ UNCHANGED <<qvars, pvars, xvars>>

\* it resolves with no job: break
PullEmpty ==
    /\ mainPc = "pulling"
    /\ queued = 0
    /\ mainPc' = "done"
    /\ log' = Append(log, "empty")
    /\ UNCHANGED <<iter, isShuttingDown, processed, failed, queued, started>>
    /\ UNCHANGED <<qvars, pvars, xvars>>

\* it resolves with a job: processBook(job.gutenbergId, job.id, ...) is called
PullJob ==
    /\ mainPc = "pulling"
    /\ queued > 0
    /\ started' = Append(started, isShuttingDown)
    /\ mainPc' = "processing"
    /\ log' = Append(log, "start")
    /\ UNCHANGED <<iter, isShuttingDown, processed, failed, queued>>
    /\ UNCHANGED <<qvars, pvars, xvars>>

\* await processBook(...) settles; the job has left the queue when one of the
\* run's status updates got through
ProcessBookSettles ==
    /\ mainPc = "processing"
    /\ \E returned \in BOOLEAN, updated \in BOOLEAN :
          /\ IF returned
             THEN processed' = processed + 1 /\ UNCHANGED failed
             ELSE failed' = failed + 1 /\ UNCHANGED processed
          /\ log' = Append(log, IF returned THEN "ok" ELSE "threw")
          /\ queued' = IF updated THEN queued - 1 ELSE queued
    /\ mainPc' = "delayTest"
    /\ UNCHANGED <<iter, isShuttingDown, started>>
    /\ UNCHANGED <<qvars, pvars, xvars>>

\* if (i < MAX_BOOKS - 1 && !isShuttingDown) await sleep(DELAY_MS); else i++
DelayTest ==
    /\ mainPc = "delayTest"
    /\ IF iter < MaxBooks - 1 /\ ~isShuttingDown
       THEN mainPc' = "sleeping" /\ log' = Append(log, "sleep") /\ UNCHANGED iter
       ELSE mainPc' = "loopTest" /\ iter' = iter + 1 /\ UNCHANGED log
    /\ UNCHANGED <<isShuttingDown, processed, failed, queued, started>>
    /\ UNCHANGED <<qvars, pvars, xvars>>

\* the sleep ends; i++
SleepEnds ==
    /\ mainPc = "sleeping"
    /\ mainPc' = "loopTest"
    /\ iter' = iter + 1
    /\ UNCHANGED <<isShuttingDown, processed, failed, queued, started, log>>
    /\ UNCHANGED <<qvars, pvars, xvars>>

BNext ==
    \/ Signal
    \/ LoopTest
    \/ PullFails
    \/ PullEmpty
    \/ PullJob
    \/ ProcessBookSettles
    \/ DelayTest
    \/ SleepEnds

-----------------------------------------------------------------------------
(* splitHtmlSegments (semanticizer.ts; spelling-modernizer.ts and          *)
(* foreign-tagger.ts hold the same function), one action per branch of     *)
(* the while loop.                                                         *)

LT == 60    \* '<'

GT == 62    \* '>'

\* String.prototype.indexOf(ch, from): the first index >= from holding ch, 0
\* for -1 (indices are 1-based)
indexOf(s, ch, from) ==
    IF \E q \in from..Len(s) : s[q] = ch
    THEN Min({q \in from..Len(s) : s[q] = ch})
    ELSE 0

Segment(text, isTag) == [text |-> text, isTag |-> isTag]

\* the code points an argument is made of: '<', '>', 'a'
HtmlAlphabet == {LT, GT, 97}

RECURSIVE StringsUpTo(_, _)
StringsUpTo(A, n) ==
    IF n = 0 THEN {<<>>}
    ELSE StringsUpTo(A, n - 1)
         \cup {Append(w, c) : w \in {v \in StringsUpTo(A, n - 1) : Len(v) = n - 1}, c \in A}

SInit ==
    /\ sHtml \in StringsUpTo(HtmlAlphabet, MaxHtmlLen)
    /\ sI = 1
    /\ sSegs = <<>>
    /\ sPc = "loop"

SFrame == UNCHANGED <<qvars, pvars, bvars, tvars, evars, gvars, kvars, dvars>>

\* html[i] === '<' and a '>' follows: one tag segment up to it
SegTag ==
    /\ sPc = "loop"
    /\ sI <= Len(sHtml)
    /\ sHtml[sI] = LT
    /\ indexOf(sHtml, GT, sI) # 0
    /\ sSegs' = Append(sSegs, Segment(SubSeq(sHtml, sI, indexOf(sHtml, GT, sI)), TRUE))
    /\ sI' = indexOf(sHtml, GT, sI) + 1
    /\ UNCHANGED <<sHtml, sPc>>
    /\ SFrame

\* SegUnterminated without the push before the break
SegUnterminated_Dropped ==
    /\ sPc = "loop"
    /\ sI <= Len(sHtml)
    /\ sHtml[sI] = LT
    /\ indexOf(sHtml, GT, sI) = 0
    /\ sPc' = "done"
    /\ UNCHANGED <<sHtml, sI, sSegs>>
    /\ SFrame

\* html[i] === '<' and no '>' follows: the rest as text; break
SegUnterminated ==
    /\ sPc = "loop"
    /\ sI <= Len(sHtml)
    /\ sHtml[sI] = LT
    /\ indexOf(sHtml, GT, sI) = 0
    /\ sSegs' = Append(sSegs, Segment(SubSeq(sHtml, sI, Len(sHtml)), FALSE))
    /\ sPc' = "done"
    /\ UNCHANGED <<sHtml, sI>>
    /\ SFrame

\* html[i] is not '<' and a '<' follows: one text segment up to it
SegText ==
    /\ sPc = "loop"
    /\ sI <= Len(sHtml)
    /\ sHtml[sI] # LT
    /\ indexOf(sHtml, LT, sI) # 0
    /\ sSegs' = Append(sSegs, Segment(SubSeq(sHtml, sI, indexOf(sHtml, LT, sI) - 1), FALSE))
    /\ sI' = indexOf(sHtml, LT, sI)
    /\ UNCHANGED <<sHtml, sPc>>
    /\ SFrame

\* html[i] is not '<' and no '<' follows: the rest as text; break
SegLastText ==
    /\ sPc = "loop"
    /\ sI <= Len(sHtml)
    /\ sHtml[sI] # LT
    /\ indexOf(sHtml, LT, sI) = 0
    /\ sSegs' = Append(sSegs, Segment(SubSeq(sHtml, sI, Len(sHtml)), FALSE))
    /\ sPc' = "done"
    /\ UNCHANGED <<sHtml, sI>>
    /\ SFrame

\* while (i < html.length) is false: return segments
SegReturn ==
    /\ sPc = "loop"
    /\ sI > Len(sHtml)
    /\ sPc' = "done"
    /\ UNCHANGED <<sHtml, sI, sSegs>>
    /\ SFrame

SNext ==
    \/ SegTag
    \/ SegUnterminated
    \/ SegText
    \/ SegLastText
    \/ SegReturn

\* the function as a whole: the segments the loop returns for html from i on
RECURSIVE splitFrom(_, _)
splitFrom(html, i) ==
    IF i > Len(html) THEN <<>>
    ELSE IF html[i] = LT
         THEN IF indexOf(html, GT, i) = 0
              THEN <<Segment(SubSeq(html, i, Len(html)), FALSE)>>
              ELSE <<Segment(SubSeq(html, i, indexOf(html, GT, i)), TRUE)>>
                   \o splitFrom(html, indexOf(html, GT, i) + 1)
         ELSE IF indexOf(html, LT, i) = 0
              THEN <<Segment(SubSeq(html, i, Len(html)), FALSE)>>
              ELSE <<Segment(SubSeq(html, i, indexOf(html, LT, i) - 1), FALSE)>>
                   \o splitFrom(html, indexOf(html, LT, i))

splitHtmlSegments(html) == splitFrom(html, 1)

-----------------------------------------------------------------------------
(* JavaScript regular expressions, as values, and String.prototype.replace. *)
(*                                                                         *)
(*   Chars(S)        one code point of the set S                           *)
(*   NotChars(S)     one code point outside S  ([^...])                    *)
(*   Cat(<<r, ..>>)  r followed by ...                                     *)
(*   Alt(<<r, ..>>)  r | ...   (the leftmost alternative first)            *)
(*   Rep(r, m, n)    r{m,n}, greedy; n = Inf for no upper limit            *)
(*   Lazy(r, m, n)   r{m,n}?                                               *)
(*   Group(k, r)     the k-th capturing group                              *)
(*   WordB, Bol, Eol, MBol, MEol   \b, ^, $, and ^, $ under the m flag     *)
(*   Ahead(r)        (?=r)                                                 *)
(*   NotBehind(S)    (?<!c) for c in S                                     *)
(*   BackRef(n, ci)  \n                                                    *)
(*                                                                         *)
(* A match state is [p, c]: the index of the next code point to read and   *)
(* the captures so far.  Run yields the states a pattern can end in, in    *)
(* the order a backtracking matcher tries them.                            *)

Inf == -1

Chars(S) == [k |-> "chars", s |-> S]

NotChars(S) == [k |-> "notchars", s |-> S]

Cat(rs) == [k |-> "cat", r |-> rs]

Alt(rs) == [k |-> "alt", r |-> rs]

Rep(r, m, n) == [k |-> "rep", r |-> r, min |-> m, max |-> n, greedy |-> TRUE]

Lazy(r, m, n) == [k |-> "rep", r |-> r, min |-> m, max |-> n, greedy |-> FALSE]

Group(n, r) == [k |-> "group", n |-> n, r |-> r]

WordB == [k |-> "wordb"]

Bol == [k |-> "bol"]

Eol == [k |-> "eol"]

MBol == [k |-> "mbol"]

MEol == [k |-> "meol"]

Ahead(r) == [k |-> "ahead", r |-> r]

NotBehind(S) == [k |-> "notbehind", s |-> S]

\* \n of a pattern: the text the n-th group captured (any case under the i flag)
BackRef(n, ci) == [k |-> "backref", n |-> n, ci |-> ci]

\* \s, \d, \w as sets, and [\s\S]
WhiteSpace ==
    {9, 10, 11, 12, 13, 32, 160, 5760, 8232, 8233, 8239, 8287, 12288, 65279}
        \cup (8192..8202)

Digits == 48..57

WordChars == (48..57) \cup (65..90) \cup (97..122) \cup {95}

AnyChar == NotChars({})

Opt(r) == Rep(r, 0, 1)

Star(r) == Rep(r, 0, Inf)

Plus(r) == Rep(r, 1, Inf)

\* a literal, and a literal under the i flag
Lit(str) == Cat([i \in 1..Len(str) |-> Chars({str[i]})])

LitI(str) == Cat([i \in 1..Len(str) |-> Chars({LowerChar(str[i]), UpperChar(str[i])})])

\* the capturing groups of a pattern are numbered 1..MaxGroups
MaxGroups == 4

NoCaptures == [n \in 1..MaxGroups |-> <<0, 0>>]

LineTerminators == {10, 13, 8232, 8233}

\* text t is at index p of s (letters of either case when ci)
SameText(t, s, p, ci) ==
    /\ p + Len(t) - 1 <= Len(s)
    /\ \A k \in 1..Len(t) :
          IF ci THEN LowerChar(s[p + k - 1]) = LowerChar(t[k]) ELSE s[p + k - 1] = t[k]

\* the sequences of ss joined (by halves, so that the nesting stays shallow)
RECURSIVE Flatten(_)
Flatten(ss) ==
    IF Len(ss) = 0 THEN <<>>
    ELSE IF Len(ss) = 1 THEN ss[1]
    ELSE Flatten(SubSeq(ss, 1, Len(ss) \div 2))
             \o Flatten(SubSeq(ss, Len(ss) \div 2 + 1, Len(ss)))

RECURSIVE Run(_, _, _)
RECURSIVE RunCat(_, _, _)
RECURSIVE RunRep(_, _, _, _)

\* re from each of the states sts, in order
RunEach(re, s, sts) == Flatten([k \in 1..Len(sts) |-> Run(re, s, sts[k])])

RunCat(rs, s, sts) ==
    IF rs = <<>> \/ sts = <<>> THEN sts
    ELSE RunCat(Tail(rs), s, RunEach(Head(rs), s, sts))

RunAlt(rs, s, st) == Flatten([k \in 1..Len(rs) |-> Run(rs[k], s, st)])

\* the states after one more iteration that consumed something, each continued
RunRepEach(re, s, sts, done) ==
    Flatten([k \in 1..Len(sts) |-> RunRep(re, s, sts[k], done)])

\* how many code points from index p on are in the class cls (at most lim)
ClassRun(cls, s, p, lim) ==
    LET In(c) == IF cls.k = "chars" THEN c \in cls.s ELSE c \notin cls.s
        upto  == IF lim = Inf \/ p + lim - 1 > Len(s) THEN Len(s) ELSE p + lim - 1
        stops == {q \in p..upto : ~In(s[q])}
    IN  IF stops = {} THEN upto - p + 1 ELSE Min(stops) - p

\* a repetition of one class: it can stop after min, min + 1, ... code points
\* of the run, the longest first when greedy, the shortest first when lazy
RunClassRep(re, s, st, n) ==
    IF n < re.min THEN <<>>
    ELSE [k \in 1..(n - re.min + 1) |->
            [st EXCEPT !.p = st.p + (IF re.greedy THEN n - k + 1 ELSE re.min + k - 1)]]

\* re.r{min,max} from st when `done` iterations have matched
RunRep(re, s, st, done) ==
    IF done = 0 /\ re.r.k \in {"chars", "notchars"}
    THEN RunClassRep(re, s, st, ClassRun(re.r, s, st.p, re.max))
    ELSE IF re.max # Inf /\ done >= re.max THEN <<st>>
    ELSE IF re.greedy
         THEN RunRepEach(re, s, SelectSeq(Run(re.r, s, st), LAMBDA t : t.p > st.p),
                         done + 1)
              \o (IF done >= re.min THEN <<st>> ELSE <<>>)
         ELSE (IF done >= re.min THEN <<st>> ELSE <<>>)
              \o RunRepEach(re, s, SelectSeq(Run(re.r, s, st), LAMBDA t : t.p > st.p),
                            done + 1)

\* the group's capture recorded in each end state
Captured(n, from, sts) ==
    [i \in 1..Len(sts) |-> [p |-> sts[i].p, c |-> [sts[i].c EXCEPT ![n] = <<from, sts[i].p>>]]]

Run(re, s, st) ==
    CASE re.k = "chars" ->
            IF st.p <= Len(s) /\ s[st.p] \in re.s
            THEN <<[st EXCEPT !.p = st.p + 1]>> ELSE <<>>
      [] re.k = "notchars" ->
            IF st.p <= Len(s) /\ s[st.p] \notin re.s
            THEN <<[st EXCEPT !.p = st.p + 1]>> ELSE <<>>
      [] re.k = "cat" -> RunCat(re.r, s, <<st>>)
      [] re.k = "alt" -> RunAlt(re.r, s, st)
      [] re.k = "rep" -> RunRep(re, s, st, 0)
      [] re.k = "group" -> Captured(re.n, st.p, Run(re.r, s, st))
      [] re.k = "wordb" -> IF WordBoundary(s, st.p) THEN <<st>> ELSE <<>>
      [] re.k = "bol" -> IF st.p = 1 THEN <<st>> ELSE <<>>
      [] re.k = "eol" -> IF st.p = Len(s) + 1 THEN <<st>> ELSE <<>>
      [] re.k = "mbol" ->
            IF st.p = 1 \/ s[st.p - 1] \in LineTerminators THEN <<st>> ELSE <<>>
      [] re.k = "meol" ->
            IF st.p = Len(s) + 1 \/ s[st.p] \in LineTerminators THEN <<st>> ELSE <<>>
      [] re.k = "ahead" -> IF Run(re.r, s, st) # <<>> THEN <<st>> ELSE <<>>
      [] re.k = "notbehind" ->
            IF st.p > 1 /\ s[st.p - 1] \in re.s THEN <<>> ELSE <<st>>
      [] re.k = "backref" ->
            IF SameText(SubSeq(s, st.c[re.n][1], st.c[re.n][2] - 1), s, st.p, re.ci)
            THEN <<[st EXCEPT !.p = st.p + (st.c[re.n][2] - st.c[re.n][1])]>>
            ELSE <<>>

\* the match of re that starts at index i, as <<[from, to, c]>> (to is
\* exclusive), or <<>> when there is none
MatchOf(i, ends) ==
    IF ends = <<>> THEN <<>>
    ELSE <<[from |-> i, to |-> ends[1].p, c |-> ends[1].c]>>

MatchAt(re, s, i) == MatchOf(i, Run(re, s, [p |-> i, c |-> NoCaptures]))

\* the indices at which re matches
MatchStarts(re, s) == {j \in 1..(Len(s) + 1) : MatchAt(re, s, j) # <<>>}

\* the matches a /g scan finds from index i on: leftmost first, the scan
\* going on where the match ended (one further after an empty match)
RECURSIVE ScanFrom(_, _, _, _)
RECURSIVE AfterMatch(_, _, _, _)
AfterMatch(re, s, starts, m) ==
    m \o ScanFrom(re, s, starts, IF m[1].to > m[1].from THEN m[1].to ELSE m[1].from + 1)

ScanFrom(re, s, starts, i) ==
    IF {j \in starts : j >= i} = {} THEN <<>>
    ELSE AfterMatch(re, s, starts, MatchAt(re, s, Min({j \in starts : j >= i})))

AllMatches(re, s, i) == ScanFrom(re, s, MatchStarts(re, s), i)

\* RegExp.prototype.test
Test(re, s) == \E i \in 1..(Len(s) + 1) : MatchAt(re, s, i) # <<>>

\* $n of a match ($0 is the match itself); a group that did not take part is ''
Cap(s, m, n) ==
    IF n = 0 THEN SubSeq(s, m.from, m.to - 1)
    ELSE SubSeq(s, m.c[n][1], m.c[n][2] - 1)

\* the text between the matches: before the first, between two, after the last
Gap(s, ms, j) ==
    SubSeq(s, IF j = 0 THEN 1 ELSE ms[j].to,
              IF j = Len(ms) THEN Len(s) ELSE ms[j + 1].from - 1)

\* a replacement string: items <<"lit", text>> and <<"cap", n>> ($n)
Expand(tpl, s, m) ==
    Flatten([k \in 1..Len(tpl) |->
                IF tpl[k][1] = "lit" THEN tpl[k][2] ELSE Cap(s, m, tpl[k][2])])

\* s with each of the matches ms replaced by the expanded template
ReplaceMatches(s, ms, tpl) ==
    Flatten([k \in 1..(2 * Len(ms) + 1) |->
                IF k % 2 = 1 THEN Gap(s, ms, k \div 2) ELSE Expand(tpl, s, ms[k \div 2])])

\* s.replace(re, template) with the g flag; the receiver s is evaluated
\* before the scan begins
Replace(s, re, tpl) ==
    IF Len(s) >= 0 THEN ReplaceMatches(s, AllMatches(re, s, 1), tpl) ELSE s

-----------------------------------------------------------------------------
(* The text transforms (typographize, smartQuotes, ...): each is a         *)
(* sequence of String.prototype.replace calls, on the whole HTML or on its *)
(* text segments.                                                          *)

\* s.replace(r1, t1).replace(r2, t2)... : the steps applied in order
ReplaceEach(s, steps) ==
    LET after[k \in 0..Len(steps)] ==
            IF k = 0 THEN s ELSE Replace(after[k - 1], steps[k][1], steps[k][2])
    IN  after[Len(steps)]

\* segments.map(seg => (seg.isTag ? seg.text : fn(seg.text))).join('')
JoinSegments(segs, fn(_)) ==
    Flatten([k \in 1..Len(segs) |-> IF segs[k].isTag THEN segs[k].text ELSE fn(segs[k].text)])

transformTextNodes(html, fn(_)) == JoinSegments(splitHtmlSegments(html), fn)

\* decodeQuoteEntities: the three replacements, in order
decodeQuoteEntitiesSteps ==
    \* s.replace(/&quot;/g, '"')
    << <<Cat(<<Chars({38}), Chars({113}), Chars({117}), Chars({111}),
           Chars({116}), Chars({59})>>),
         <<<<"lit", <<34>>>>>>>>,
    \* s.replace(/&apos;/g, ''')
       <<Cat(<<Chars({38}), Chars({97}), Chars({112}), Chars({111}),
           Chars({115}), Chars({59})>>),
         <<<<"lit", <<39>>>>>>>>,
    \* s.replace(/&#39;/g, ''')
       <<Cat(<<Chars({38}), Chars({35}), Chars({51}), Chars({57}),
           Chars({59})>>),
         <<<<"lit", <<39>>>>>>>> >>

\* smartQuotes: pass 1 (contractions), pass 2 (double quotes), pass 3 (single quotes)
smartQuotesSteps ==
    \* s.replace(/(\w)'(t|s|d|ll|re|ve|m)\b/gi, '$1\u2019$2')
    << <<Cat(<<Group(1, Chars(WordChars)), Chars({39}), Group(2,
           Alt(<<Chars({84, 116}), Chars({83, 115}), Chars({68, 100}),
           Cat(<<Chars({76, 108}), Chars({76, 108})>>), Cat(<<Chars({82,
           114}), Chars({69, 101})>>), Cat(<<Chars({86, 118}), Chars({69,
           101})>>), Chars({77, 109})>>)), WordB>>),
         <<<<"cap", 1>>, <<"lit", <<8217>>>>, <<"cap", 2>>>>>>,
    \* s.replace(/\b'(tis|twas|em|n|cause)\b/gi, '\u2019$1')
       <<Cat(<<WordB, Chars({39}), Group(1, Alt(<<Cat(<<Chars({84, 116}),
           Chars({73, 105}), Chars({83, 115})>>), Cat(<<Chars({84, 116}),
           Chars({87, 119}), Chars({65, 97}), Chars({83, 115})>>),
           Cat(<<Chars({69, 101}), Chars({77, 109})>>), Chars({78, 110}),
           Cat(<<Chars({67, 99}), Chars({65, 97}), Chars({85, 117}),
           Chars({83, 115}), Chars({69, 101})>>)>>)), WordB>>),
         <<<<"lit", <<8217>>>>, <<"cap", 1>>>>>>,
    \* s.replace(/(\w)s'(\s|$)/g, '$1s\u2019$2')
       <<Cat(<<Group(1, Chars(WordChars)), Chars({115}), Chars({39}),
           Group(2, Alt(<<Chars(WhiteSpace), Eol>>))>>),
         <<<<"cap", 1>>, <<"lit", <<115, 8217>>>>, <<"cap", 2>>>>>>,
    \* s.replace(/\bo'clock/gi, 'o\u2019clock')
       <<Cat(<<WordB, Chars({79, 111}), Chars({39}), Chars({67, 99}),
           Chars({76, 108}), Chars({79, 111}), Chars({67, 99}), Chars({75,
           107})>>),
         <<<<"lit", <<111, 8217, 99, 108, 111, 99, 107>>>>>>>>,
    \* s.replace(/'(\d\ds?\b)/g, '\u2019$1')
       <<Cat(<<Chars({39}), Group(1, Cat(<<Chars(Digits), Chars(Digits),
           Rep(Chars({115}), 0, 1), WordB>>))>>),
         <<<<"lit", <<8217>>>>, <<"cap", 1>>>>>>,
    \* s.replace(/(^|[\s(\[{])"/g, '$1\u201C')
       <<Cat(<<Group(1, Alt(<<Bol, Chars((WhiteSpace \cup {40, 91,
           123}))>>)), Chars({34})>>),
         <<<<"cap", 1>>, <<"lit", <<8220>>>>>>>>,
    \* s.replace(/"([\s.,;:!?\)\]}\-\u2014\u2013]|$)/g, '\u201D$1')
       <<Cat(<<Chars({34}), Group(1, Alt(<<Chars((WhiteSpace \cup {33, 41,
           44, 45, 46, 58, 59, 63, 93, 125, 8211, 8212})), Eol>>))>>),
         <<<<"lit", <<8221>>>>, <<"cap", 1>>>>>>,
    \* s.replace(/(\w)"/g, '$1\u201D')
       <<Cat(<<Group(1, Chars(WordChars)), Chars({34})>>),
         <<<<"cap", 1>>, <<"lit", <<8221>>>>>>>>,
    \* s.replace(/"(\w)/g, '\u201C$1')
       <<Cat(<<Chars({34}), Group(1, Chars(WordChars))>>),
         <<<<"lit", <<8220>>>>, <<"cap", 1>>>>>>,
    \* s.replace(/"/g, '\u201D')
       <<Chars({34}),
         <<<<"lit", <<8221>>>>>>>>,
    \* s.replace(/(^|[\s(\[{]|[\u201C])'(?=\w)/g, '$1\u2018')
       <<Cat(<<Group(1, Alt(<<Bol, Chars((WhiteSpace \cup {40, 91, 123})),
           Chars({8220})>>)), Chars({39}), Ahead(Chars(WordChars))>>),
         <<<<"cap", 1>>, <<"lit", <<8216>>>>>>>>,
    \* s.replace(/'([\s.,;:!?\)\]}\-\u2014\u2013\u201D]|$)/g, '\u2019$1')
       <<Cat(<<Chars({39}), Group(1, Alt(<<Chars((WhiteSpace \cup {33, 41,
           44, 45, 46, 58, 59, 63, 93, 125, 8211, 8212, 8221})), Eol>>))>>),
         <<<<"lit", <<8217>>>>, <<"cap", 1>>>>>>,
    \* s.replace(/'/g, '\u2019')
       <<Chars({39}),
         <<<<"lit", <<8217>>>>>>>> >>

\* normalizeEmDashes
normalizeEmDashesSteps ==
    \* s.replace(/ ?-- ?/g, '\u2060\u2014')
    << <<Cat(<<Rep(Chars({32}), 0, 1), Chars({45}), Chars({45}),
           Rep(Chars({32}), 0, 1)>>),
         <<<<"lit", <<8288, 8212>>>>>>>>,
    \* s.replace(/ ?\u2014 ?/g, '\u2014')
       <<Cat(<<Rep(Chars({32}), 0, 1), Chars({8212}), Rep(Chars({32}), 0,
           1)>>),
         <<<<"lit", <<8212>>>>>>>>,
    \* s.replace(/(?<!\u2060)\u2014/g, '\u2060\u2014')
       <<Cat(<<NotBehind({8288}), Chars({8212})>>),
         <<<<"lit", <<8288, 8212>>>>>>>> >>

\* normalizeMultiEmDashes
normalizeMultiEmDashesSteps ==
    \* s.replace(/(?:\u2060?\u2014){3,}/g, '\u2E3B')
    << <<Rep(Cat(<<Rep(Chars({8288}), 0, 1), Chars({8212})>>), 3, Inf),
         <<<<"lit", <<11835>>>>>>>>,
    \* s.replace(/(?:\u2060?\u2014){2}/g, '\u2E3A')
       <<Rep(Cat(<<Rep(Chars({8288}), 0, 1), Chars({8212})>>), 2, 2),
         <<<<"lit", <<11834>>>>>>>> >>

\* normalizeEnDashes
normalizeEnDashesSteps ==
    \* s.replace(/(\d)\s*-\s*(\d)/g, '$1\u2060\u2013\u2060$2')
    << <<Cat(<<Group(1, Chars(Digits)), Rep(Chars(WhiteSpace), 0, Inf),
           Chars({45}), Rep(Chars(WhiteSpace), 0, Inf), Group(2,
           Chars(Digits))>>),
         <<<<"cap", 1>>, <<"lit", <<8288, 8211, 8288>>>>, <<"cap", 2>>>>>> >>

\* normalizeEllipsis
normalizeEllipsisSteps ==
    \* s.replace(/\. \. \./g, '\u2060\u2026')
    << <<Cat(<<Chars({46}), Chars({32}), Chars({46}), Chars({32}),
           Chars({46})>>),
         <<<<"lit", <<8288, 8230>>>>>>>>,
    \* s.replace(/\.\.\./g, '\u2060\u2026')
       <<Cat(<<Chars({46}), Chars({46}), Chars({46})>>),
         <<<<"lit", <<8288, 8230>>>>>>>>,
    \* s.replace(/(?<!\u2060)\u2026/g, '\u2060\u2026')
       <<Cat(<<NotBehind({8288}), Chars({8230})>>),
         <<<<"lit", <<8288, 8230>>>>>>>> >>

\* nbspAfterAbbreviations: ABBR_PATTERN built from ABBREVIATIONS
nbspAfterAbbreviationsSteps ==
    \* s.replace(/\b(Mr|Mrs|Ms|Dr|St|Jr|Sr|Prof|Rev|Vol|No|vs|etc)\.( )(?=[A-Za-z])/g, '$1.\u00A0')
    << <<Cat(<<WordB, Group(1, Alt(<<Cat(<<Chars({77}), Chars({114})>>),
           Cat(<<Chars({77}), Chars({114}), Chars({115})>>),
           Cat(<<Chars({77}), Chars({115})>>), Cat(<<Chars({68}),
           Chars({114})>>), Cat(<<Chars({83}), Chars({116})>>),
           Cat(<<Chars({74}), Chars({114})>>), Cat(<<Chars({83}),
           Chars({114})>>), Cat(<<Chars({80}), Chars({114}), Chars({111}),
           Chars({102})>>), Cat(<<Chars({82}), Chars({101}), Chars({118})>>),
           Cat(<<Chars({86}), Chars({111}), Chars({108})>>),
           Cat(<<Chars({78}), Chars({111})>>), Cat(<<Chars({118}),
           Chars({115})>>), Cat(<<Chars({101}), Chars({116}),
           Chars({99})>>)>>)), Chars({46}), Group(2, Chars({32})),
           Ahead(Chars((65..90 \cup 97..122)))>>),
         <<<<"cap", 1>>, <<"lit", <<46, 160>>>>>>>> >>

\* insertHairSpaces
insertHairSpacesSteps ==
    \* s.replace(/\u201C\u2018/g, '\u201C\u200A\u2018')
    << <<Cat(<<Chars({8220}), Chars({8216})>>),
         <<<<"lit", <<8220, 8202, 8216>>>>>>>>,
    \* s.replace(/\u2019\u201D/g, '\u2019\u200A\u201D')
       <<Cat(<<Chars({8217}), Chars({8221})>>),
         <<<<"lit", <<8217, 8202, 8221>>>>>>>> >>

\* normalizeSectionBreaks: SECTION_BREAK_RE
normalizeSectionBreaksSteps ==
    \* s.replace(/^<p[^>]*>\s*(?:\*\s*){2,}\s*<\/p>$/gim, '<hr/>')
    << <<Cat(<<MBol, Chars({60}), Chars({80, 112}), Rep(NotChars({62}), 0,
           Inf), Chars({62}), Rep(Chars(WhiteSpace), 0, Inf),
           Rep(Cat(<<Chars({42}), Rep(Chars(WhiteSpace), 0, Inf)>>), 2, Inf),
           Rep(Chars(WhiteSpace), 0, Inf), Chars({60}), Chars({47}),
           Chars({80, 112}), Chars({62}), MEol>>),
         <<<<"lit", <<60, 104, 114, 47, 62>>>>>>>> >>

decodeQuoteEntities(text) == ReplaceEach(text, decodeQuoteEntitiesSteps)

smartQuotes(text) == ReplaceEach(decodeQuoteEntities(text), smartQuotesSteps)

normalizeEmDashes(text) == ReplaceEach(text, normalizeEmDashesSteps)

normalizeMultiEmDashes(text) == ReplaceEach(text, normalizeMultiEmDashesSteps)

normalizeEnDashes(text) == ReplaceEach(text, normalizeEnDashesSteps)

normalizeEllipsis(text) == ReplaceEach(text, normalizeEllipsisSteps)

nbspAfterAbbreviations(text) == ReplaceEach(text, nbspAfterAbbreviationsSteps)

insertHairSpaces(text) == ReplaceEach(text, insertHairSpacesSteps)

normalizeSectionBreaks(html) == ReplaceEach(html, normalizeSectionBreaksSteps)

-----------------------------------------------------------------------------
(* The semantic enhancer (semanticizer.ts).                                *)

\* wrapAbbreviations: ABBR_RE, built from NAME_TITLE_ABBRS, and its replacement
wrapAbbreviationsSteps ==
    \* s.replace(/\b(Mr|Mrs|Ms|Miss|Dr|Prof|Rev|St|Jr|Sr|Capt|Col|Gen|Sgt|Cpl|Lt|Maj|Adm|Cmdr|Supt|Insp|Gov|Pres|Sen|Rep|Esq|Messrs|Mme|Mlle)\./g, '<abbr data-epub-type="z3998:name-title">$1.</abbr>')
    << <<Cat(<<WordB, Group(1, Alt(<<Cat(<<Chars({77}), Chars({114})>>),
           Cat(<<Chars({77}), Chars({114}), Chars({115})>>),
           Cat(<<Chars({77}), Chars({115})>>), Cat(<<Chars({77}),
           Chars({105}), Chars({115}), Chars({115})>>), Cat(<<Chars({68}),
           Chars({114})>>), Cat(<<Chars({80}), Chars({114}), Chars({111}),
           Chars({102})>>), Cat(<<Chars({82}), Chars({101}), Chars({118})>>),
           Cat(<<Chars({83}), Chars({116})>>), Cat(<<Chars({74}),
           Chars({114})>>), Cat(<<Chars({83}), Chars({114})>>),
           Cat(<<Chars({67}), Chars({97}), Chars({112}), Chars({116})>>),
           Cat(<<Chars({67}), Chars({111}), Chars({108})>>),
           Cat(<<Chars({71}), Chars({101}), Chars({110})>>),
           Cat(<<Chars({83}), Chars({103}), Chars({116})>>),
           Cat(<<Chars({67}), Chars({112}), Chars({108})>>),
           Cat(<<Chars({76}), Chars({116})>>), Cat(<<Chars({77}),
           Chars({97}), Chars({106})>>), Cat(<<Chars({65}), Chars({100}),
           Chars({109})>>), Cat(<<Chars({67}), Chars({109}), Chars({100}),
           Chars({114})>>), Cat(<<Chars({83}), Chars({117}), Chars({112}),
           Chars({116})>>), Cat(<<Chars({73}), Chars({110}), Chars({115}),
           Chars({112})>>), Cat(<<Chars({71}), Chars({111}), Chars({118})>>),
           Cat(<<Chars({80}), Chars({114}), Chars({101}), Chars({115})>>),
           Cat(<<Chars({83}), Chars({101}), Chars({110})>>),
           Cat(<<Chars({82}), Chars({101}), Chars({112})>>),
           Cat(<<Chars({69}), Chars({115}), Chars({113})>>),
           Cat(<<Chars({77}), Chars({101}), Chars({115}), Chars({115}),
           Chars({114}), Chars({115})>>), Cat(<<Chars({77}), Chars({109}),
           Chars({101})>>), Cat(<<Chars({77}), Chars({108}), Chars({108}),
           Chars({101})>>)>>)), Chars({46})>>),
         <<<<"lit", <<60, 97, 98, 98, 114, 32, 100, 97, 116, 97, 45, 101, 112, 117, 98, 45, 116, 121, 112, 101, 61, 34, 122, 51, 57, 57, 56, 58, 110, 97, 109, 101, 45, 116, 105, 116, 108, 101, 34, 62>>>>, <<"cap", 1>>, <<"lit", <<46, 60, 47, 97, 98, 98, 114, 62>>>>>>>> >>

\* wrapContextualRomanNumerals: ROMAN_CONTEXT_RE; the callback returns contextWord, a space, and the numeral in a span
wrapContextualRomanNumeralsSteps ==
    \* s.replace(/\b(Chapter|Act|Scene|Part|Book|Volume|Vol|Canto|Section|Article)\s+(X{0,3}(?:IX|IV|V?I{1,3})|X{1,3}|XL|L(?:X{0,3})|(?:XC|C)?[MDCLXVI]+)\b/gi, '$1 <span data-epub-type="z3998:roman">$2</span>')
    << <<Cat(<<WordB, Group(1, Alt(<<Cat(<<Chars({67, 99}), Chars({72, 104}),
           Chars({65, 97}), Chars({80, 112}), Chars({84, 116}), Chars({69,
           101}), Chars({82, 114})>>), Cat(<<Chars({65, 97}), Chars({67,
           99}), Chars({84, 116})>>), Cat(<<Chars({83, 115}), Chars({67,
           99}), Chars({69, 101}), Chars({78, 110}), Chars({69, 101})>>),
           Cat(<<Chars({80, 112}), Chars({65, 97}), Chars({82, 114}),
           Chars({84, 116})>>), Cat(<<Chars({66, 98}), Chars({79, 111}),
           Chars({79, 111}), Chars({75, 107})>>), Cat(<<Chars({86, 118}),
           Chars({79, 111}), Chars({76, 108}), Chars({85, 117}), Chars({77,
           109}), Chars({69, 101})>>), Cat(<<Chars({86, 118}), Chars({79,
           111}), Chars({76, 108})>>), Cat(<<Chars({67, 99}), Chars({65,
           97}), Chars({78, 110}), Chars({84, 116}), Chars({79, 111})>>),
           Cat(<<Chars({83, 115}), Chars({69, 101}), Chars({67, 99}),
           Chars({84, 116}), Chars({73, 105}), Chars({79, 111}), Chars({78,
           110})>>), Cat(<<Chars({65, 97}), Chars({82, 114}), Chars({84,
           116}), Chars({73, 105}), Chars({67, 99}), Chars({76, 108}),
           Chars({69, 101})>>)>>)), Rep(Chars(WhiteSpace), 1, Inf), Group(2,
           Alt(<<Cat(<<Rep(Chars({88, 120}), 0, 3), Alt(<<Cat(<<Chars({73,
           105}), Chars({88, 120})>>), Cat(<<Chars({73, 105}), Chars({86,
           118})>>), Cat(<<Rep(Chars({86, 118}), 0, 1), Rep(Chars({73, 105}),
           1, 3)>>)>>)>>), Rep(Chars({88, 120}), 1, 3), Cat(<<Chars({88,
           120}), Chars({76, 108})>>), Cat(<<Chars({76, 108}), Rep(Chars({88,
           120}), 0, 3)>>), Cat(<<Rep(Alt(<<Cat(<<Chars({88, 120}),
           Chars({67, 99})>>), Chars({67, 99})>>), 0, 1), Rep(Chars({67, 68,
           73, 76, 77, 86, 88, 99, 100, 105, 108, 109, 118, 120}), 1,
           Inf)>>)>>)), WordB>>),
         <<<<"cap", 1>>, <<"lit", <<32, 60, 115, 112, 97, 110, 32, 100, 97, 116, 97, 45, 101, 112, 117, 98, 45, 116, 121, 112, 101, 61, 34, 122, 51, 57, 57, 56, 58, 114, 111, 109, 97, 110, 34, 62>>>>, <<"cap", 2>>, <<"lit", <<60, 47, 115, 112, 97, 110, 62>>>>>>>> >>

\* markMeasurementUnits: MEASUREMENT_RE, built from MEASUREMENT_UNITS; the callback wraps the match ($0)
markMeasurementUnitsSteps ==
    \* s.replace(/(\d{1,3}(?:,\d{3})*(?:\.\d+)?)\s+(miles?|yards?|feet|foot|inches?|leagues?|furlongs?|fathoms?|rods?|chains?|pounds?|lbs?\.?|ounces?|oz\.?|stones?|tons?|hundredweight|cwt\.?|grains?|gallons?|quarts?|pints?|bushels?|barrels?|hogsheads?|firkins?|gills?|shillings?|pence|guineas?|crowns?|florins?|sovereigns?|acres?|knots?|ft\.?|in\.?|yd\.?|mi\.?|mph)\b/gi, '<span data-epub-type="z3998:unit">$0</span>')
    << <<Cat(<<Group(1, Cat(<<Rep(Chars(Digits), 1, 3),
           Rep(Cat(<<Chars({44}), Rep(Chars(Digits), 3, 3)>>), 0, Inf),
           Rep(Cat(<<Chars({46}), Rep(Chars(Digits), 1, Inf)>>), 0, 1)>>)),
           Rep(Chars(WhiteSpace), 1, Inf), Group(2, Alt(<<Cat(<<Chars({77,
           109}), Chars({73, 105}), Chars({76, 108}), Chars({69, 101}),
           Rep(Chars({83, 115}), 0, 1)>>), Cat(<<Chars({89, 121}), Chars({65,
           97}), Chars({82, 114}), Chars({68, 100}), Rep(Chars({83, 115}), 0,
           1)>>), Cat(<<Chars({70, 102}), Chars({69, 101}), Chars({69, 101}),
           Chars({84, 116})>>), Cat(<<Chars({70, 102}), Chars({79, 111}),
           Chars({79, 111}), Chars({84, 116})>>), Cat(<<Chars({73, 105}),
           Chars({78, 110}), Chars({67, 99}), Chars({72, 104}), Chars({69,
           101}), Rep(Chars({83, 115}), 0, 1)>>), Cat(<<Chars({76, 108}),
           Chars({69, 101}), Chars({65, 97}), Chars({71, 103}), Chars({85,
           117}), Chars({69, 101}), Rep(Chars({83, 115}), 0, 1)>>),
           Cat(<<Chars({70, 102}), Chars({85, 117}), Chars({82, 114}),
           Chars({76, 108}), Chars({79, 111}), Chars({78, 110}), Chars({71,
           103}), Rep(Chars({83, 115}), 0, 1)>>), Cat(<<Chars({70, 102}),
           Chars({65, 97}), Chars({84, 116}), Chars({72, 104}), Chars({79,
           111}), Chars({77, 109}), Rep(Chars({83, 115}), 0, 1)>>),
           Cat(<<Chars({82, 114}), Chars({79, 111}), Chars({68, 100}),
           Rep(Chars({83, 115}), 0, 1)>>), Cat(<<Chars({67, 99}), Chars({72,
           104}), Chars({65, 97}), Chars({73, 105}), Chars({78, 110}),
           Rep(Chars({83, 115}), 0, 1)>>), Cat(<<Chars({80, 112}), Chars({79,
           111}), Chars({85, 117}), Chars({78, 110}), Chars({68, 100}),
           Rep(Chars({83, 115}), 0, 1)>>), Cat(<<Chars({76, 108}), Chars({66,
           98}), Rep(Chars({83, 115}), 0, 1), Rep(Chars({46}), 0, 1)>>),
           Cat(<<Chars({79, 111}), Chars({85, 117}), Chars({78, 110}),
           Chars({67, 99}), Chars({69, 101}), Rep(Chars({83, 115}), 0, 1)>>),
           Cat(<<Chars({79, 111}), Chars({90, 122}), Rep(Chars({46}), 0,
           1)>>), Cat(<<Chars({83, 115}), Chars({84, 116}), Chars({79, 111}),
           Chars({78, 110}), Chars({69, 101}), Rep(Chars({83, 115}), 0,
           1)>>), Cat(<<Chars({84, 116}), Chars({79, 111}), Chars({78, 110}),
           Rep(Chars({83, 115}), 0, 1)>>), Cat(<<Chars({72, 104}), Chars({85,
           117}), Chars({78, 110}), Chars({68, 100}), Chars({82, 114}),
           Chars({69, 101}), Chars({68, 100}), Chars({87, 119}), Chars({69,
           101}), Chars({73, 105}), Chars({71, 103}), Chars({72, 104}),
           Chars({84, 116})>>), Cat(<<Chars({67, 99}), Chars({87, 119}),
           Chars({84, 116}), Rep(Chars({46}), 0, 1)>>), Cat(<<Chars({71,
           103}), Chars({82, 114}), Chars({65, 97}), Chars({73, 105}),
           Chars({78, 110}), Rep(Chars({83, 115}), 0, 1)>>), Cat(<<Chars({71,
           103}), Chars({65, 97}), Chars({76, 108}), Chars({76, 108}),
           Chars({79, 111}), Chars({78, 110}), Rep(Chars({83, 115}), 0,
           1)>>), Cat(<<Chars({81, 113}), Chars({85, 117}), Chars({65, 97}),
           Chars({82, 114}), Chars({84, 116}), Rep(Chars({83, 115}), 0,
           1)>>), Cat(<<Chars({80, 112}), Chars({73, 105}), Chars({78, 110}),
           Chars({84, 116}), Rep(Chars({83, 115}), 0, 1)>>), Cat(<<Chars({66,
           98}), Chars({85, 117}), Chars({83, 115}), Chars({72, 104}),
           Chars({69, 101}), Chars({76, 108}), Rep(Chars({83, 115}), 0,
           1)>>), Cat(<<Chars({66, 98}), Chars({65, 97}), Chars({82, 114}),
           Chars({82, 114}), Chars({69, 101}), Chars({76, 108}),
           Rep(Chars({83, 115}), 0, 1)>>), Cat(<<Chars({72, 104}), Chars({79,
           111}), Chars({71, 103}), Chars({83, 115}), Chars({72, 104}),
           Chars({69, 101}), Chars({65, 97}), Chars({68, 100}),
           Rep(Chars({83, 115}), 0, 1)>>), Cat(<<Chars({70, 102}), Chars({73,
           105}), Chars({82, 114}), Chars({75, 107}), Chars({73, 105}),
           Chars({78, 110}), Rep(Chars({83, 115}), 0, 1)>>), Cat(<<Chars({71,
           103}), Chars({73, 105}), Chars({76, 108}), Chars({76, 108}),
           Rep(Chars({83, 115}), 0, 1)>>), Cat(<<Chars({83, 115}), Chars({72,
           104}), Chars({73, 105}), Chars({76, 108}), Chars({76, 108}),
           Chars({73, 105}), Chars({78, 110}), Chars({71, 103}),
           Rep(Chars({83, 115}), 0, 1)>>), Cat(<<Chars({80, 112}), Chars({69,
           101}), Chars({78, 110}), Chars({67, 99}), Chars({69, 101})>>),
           Cat(<<Chars({71, 103}), Chars({85, 117}), Chars({73, 105}),
           Chars({78, 110}), Chars({69, 101}), Chars({65, 97}),
           Rep(Chars({83, 115}), 0, 1)>>), Cat(<<Chars({67, 99}), Chars({82,
           114}), Chars({79, 111}), Chars({87, 119}), Chars({78, 110}),
           Rep(Chars({83, 115}), 0, 1)>>), Cat(<<Chars({70, 102}), Chars({76,
           108}), Chars({79, 111}), Chars({82, 114}), Chars({73, 105}),
           Chars({78, 110}), Rep(Chars({83, 115}), 0, 1)>>), Cat(<<Chars({83,
           115}), Chars({79, 111}), Chars({86, 118}), Chars({69, 101}),
           Chars({82, 114}), Chars({69, 101}), Chars({73, 105}), Chars({71,
           103}), Chars({78, 110}), Rep(Chars({83, 115}), 0, 1)>>),
           Cat(<<Chars({65, 97}), Chars({67, 99}), Chars({82, 114}),
           Chars({69, 101}), Rep(Chars({83, 115}), 0, 1)>>), Cat(<<Chars({75,
           107}), Chars({78, 110}), Chars({79, 111}), Chars({84, 116}),
           Rep(Chars({83, 115}), 0, 1)>>), Cat(<<Chars({70, 102}), Chars({84,
           116}), Rep(Chars({46}), 0, 1)>>), Cat(<<Chars({73, 105}),
           Chars({78, 110}), Rep(Chars({46}), 0, 1)>>), Cat(<<Chars({89,
           121}), Chars({68, 100}), Rep(Chars({46}), 0, 1)>>),
           Cat(<<Chars({77, 109}), Chars({73, 105}), Rep(Chars({46}), 0,
           1)>>), Cat(<<Chars({77, 109}), Chars({80, 112}), Chars({72,
           104})>>)>>)), WordB>>),
         <<<<"lit", <<60, 115, 112, 97, 110, 32, 100, 97, 116, 97, 45, 101, 112, 117, 98, 45, 116, 121, 112, 101, 61, 34, 122, 51, 57, 57, 56, 58, 117, 110, 105, 116, 34, 62>>>>, <<"cap", 0>>, <<"lit", <<60, 47, 115, 112, 97, 110, 62>>>>>>>> >>

\* /<h([1-6])\b/gi
headingRe ==
    Cat(<<Chars({60}), Chars({72, 104}), Group(1, Chars({49, 50, 51, 52, 53,
      54})), WordB>>)

\* /<(\/?)h([1-6])(\b[^>]*>)/gi
HeadingTagRe ==
    Cat(<<Chars({60}), Group(1, Rep(Chars({47}), 0, 1)), Chars({72, 104}),
      Group(2, Chars({49, 50, 51, 52, 53, 54})), Group(3, Cat(<<WordB,
      Rep(NotChars({62}), 0, Inf), Chars({62})>>))>>)

\* /<(blockquote|div|p|pre)(\s[^>]*?)class="([^"]*\b(?:verse|poem|stanza)\b[^"]*)"([^>]*?)>/gi
VerseClassRe ==
    Cat(<<Chars({60}), Group(1, Alt(<<Cat(<<Chars({66, 98}), Chars({76,
      108}), Chars({79, 111}), Chars({67, 99}), Chars({75, 107}), Chars({81,
      113}), Chars({85, 117}), Chars({79, 111}), Chars({84, 116}), Chars({69,
      101})>>), Cat(<<Chars({68, 100}), Chars({73, 105}), Chars({86,
      118})>>), Chars({80, 112}), Cat(<<Chars({80, 112}), Chars({82, 114}),
      Chars({69, 101})>>)>>)), Group(2, Cat(<<Chars(WhiteSpace),
      Lazy(NotChars({62}), 0, Inf)>>)), Chars({67, 99}), Chars({76, 108}),
      Chars({65, 97}), Chars({83, 115}), Chars({83, 115}), Chars({61}),
      Chars({34}), Group(3, Cat(<<Rep(NotChars({34}), 0, Inf), WordB,
      Alt(<<Cat(<<Chars({86, 118}), Chars({69, 101}), Chars({82, 114}),
      Chars({83, 115}), Chars({69, 101})>>), Cat(<<Chars({80, 112}),
      Chars({79, 111}), Chars({69, 101}), Chars({77, 109})>>),
      Cat(<<Chars({83, 115}), Chars({84, 116}), Chars({65, 97}), Chars({78,
      110}), Chars({90, 122}), Chars({65, 97})>>)>>), WordB,
      Rep(NotChars({34}), 0, Inf)>>)), Chars({34}), Group(4,
      Lazy(NotChars({62}), 0, Inf)), Chars({62})>>)

\* /<blockquote(\b[^>]*)>([\s\S]*?)<\/blockquote>/gi
BlockquoteRe ==
    Cat(<<Chars({60}), Chars({66, 98}), Chars({76, 108}), Chars({79, 111}),
      Chars({67, 99}), Chars({75, 107}), Chars({81, 113}), Chars({85, 117}),
      Chars({79, 111}), Chars({84, 116}), Chars({69, 101}), Group(1,
      Cat(<<WordB, Rep(NotChars({62}), 0, Inf)>>)), Chars({62}), Group(2,
      Lazy(AnyChar, 0, Inf)), Chars({60}), Chars({47}), Chars({66, 98}),
      Chars({76, 108}), Chars({79, 111}), Chars({67, 99}), Chars({75, 107}),
      Chars({81, 113}), Chars({85, 117}), Chars({79, 111}), Chars({84, 116}),
      Chars({69, 101}), Chars({62})>>)

\* /<br\s*\/?>/gi
BrRe ==
    Cat(<<Chars({60}), Chars({66, 98}), Chars({82, 114}),
      Rep(Chars(WhiteSpace), 0, Inf), Rep(Chars({47}), 0, 1), Chars({62})>>)

\* /<[^>]+>/g
AnyTagRe ==
    Cat(<<Chars({60}), Rep(NotChars({62}), 1, Inf), Chars({62})>>)

\* /data-epub-type/
EpubTypeRe ==
    Cat(<<Chars({100}), Chars({97}), Chars({116}), Chars({97}), Chars({45}),
      Chars({101}), Chars({112}), Chars({117}), Chars({98}), Chars({45}),
      Chars({116}), Chars({121}), Chars({112}), Chars({101})>>)

\* <section data-epub-type="chapter">\n
SectionOpen == <<60, 115, 101, 99, 116, 105, 111, 110, 32, 100, 97, 116, 97, 45, 101, 112, 117, 98, 45, 116, 121, 112, 101, 61, 34, 99, 104, 97, 112, 116, 101, 114, 34, 62, 10>>

\* \n</section>
SectionClose == <<10, 60, 47, 115, 101, 99, 116, 105, 111, 110, 62>>

\* "<section"
SectionPrefix == <<60, 115, 101, 99, 116, 105, 111, 110>>

\* " data-epub-type="z3998:verse""
VerseAttr == <<32, 100, 97, 116, 97, 45, 101, 112, 117, 98, 45, 116, 121, 112, 101, 61, 34, 122, 51, 57, 57, 56, 58, 118, 101, 114, 115, 101, 34>>

\* s with each of the matches ms replaced by what the callback By makes of it
ReplaceWith(s, ms, By(_, _)) ==
    Flatten([k \in 1..(2 * Len(ms) + 1) |->
                IF k % 2 = 1 THEN Gap(s, ms, k \div 2) ELSE By(s, ms[k \div 2])])

\* String.prototype.startsWith
startsWith(s, prefix) == Len(prefix) <= Len(s) /\ SubSeq(s, 1, Len(prefix)) = prefix

wrapChapterSection(html) ==
    IF startsWith(trim(html), SectionPrefix) THEN html
    ELSE SectionOpen \o html \o SectionClose

\* headingLevels: the levels parseInt(m[1], 10) of the matches of headingRe
HeadingLevelsOf(html, ms) == {html[ms[k].c[1][1]] - 48 : k \in 1..Len(ms)}

\* the replacement callback without Math.min(..., 6)
ShiftHeading_NoCap(html, m, shift) ==
    <<LT>> \o Cap(html, m, 1)
        \o <<104, 48 + Cap(html, m, 2)[1] - 48 + shift>>
        \o Cap(html, m, 3)

\* the replacement callback: `<${slash}h${newLevel}${rest}`
ShiftHeading(html, m, shift) ==
    <<LT>> \o Cap(html, m, 1)
        \o <<104, 48 + (IF Cap(html, m, 2)[1] - 48 + shift < 6
                        THEN Cap(html, m, 2)[1] - 48 + shift ELSE 6)>>
        \o Cap(html, m, 3)

ShiftHeadings(html, levels) ==
    IF levels = {} THEN html
    ELSE IF Min(levels) >= 2 THEN html
    ELSE ReplaceWith(html, AllMatches(HeadingTagRe, html, 1),
                     LAMBDA s, m : ShiftHeading(s, m, 2 - Min(levels)))

normalizeHeadingLevels(html) ==
    ShiftHeadings(html, HeadingLevelsOf(html, AllMatches(headingRe, html, 1)))

\* strategy 1, the callback: the attribute is added after the class attribute
\* unless the tag has one
VerseByClass(s, m) ==
    IF Test(EpubTypeRe, Cap(s, m, 0)) THEN Cap(s, m, 0)
    ELSE <<LT>> \o Cap(s, m, 1) \o Cap(s, m, 2) \o <<99, 108, 97, 115, 115, 61, 34>> \o Cap(s, m, 3)
             \o <<34>> \o VerseAttr \o Cap(s, m, 4) \o <<GT>>

\* content.split(/<br\s*\/?>/i).map(l => l.replace(/<[^>]+>/g, '').trim())
VerseLines(content, brs) ==
    [j \in 1..(Len(brs) + 1) |-> trim(Replace(Gap(content, brs, j - 1), AnyTagRe, <<>>))]

RECURSIVE SumLen(_)
SumLen(ls) == IF ls = <<>> THEN 0 ELSE Len(Head(ls)) + SumLen(Tail(ls))

\* nonEmptyLines.length >= 4 and the average length below 60
ShortLines(nonEmptyLines) ==
    /\ Len(nonEmptyLines) >= 4
    /\ SumLen(nonEmptyLines) < 60 * Len(nonEmptyLines)

\* strategy 2, the callback, on a blockquote without the attribute
VerseByBreaks(s, m) ==
    IF Test(EpubTypeRe, Cap(s, m, 1)) THEN Cap(s, m, 0)
    ELSE IF Len(AllMatches(BrRe, Cap(s, m, 2), 1)) < 3 THEN Cap(s, m, 0)
    ELSE IF ShortLines(SelectSeq(VerseLines(Cap(s, m, 2), AllMatches(BrRe, Cap(s, m, 2), 1)),
                                 LAMBDA l : Len(l) > 0))
         THEN <<60, 98, 108, 111, 99, 107, 113, 117, 111, 116, 101>> \o Cap(s, m, 1) \o VerseAttr \o <<GT>>
                  \o Cap(s, m, 2) \o <<60, 47, 98, 108, 111, 99, 107, 113, 117, 111, 116, 101, 62>>
         ELSE Cap(s, m, 0)

VerseStrategy1(html) == ReplaceWith(html, AllMatches(VerseClassRe, html, 1), VerseByClass)

VerseStrategy2(html) == ReplaceWith(html, AllMatches(BlockquoteRe, html, 1), VerseByBreaks)

detectVerseBlocks(html) == VerseStrategy2(VerseStrategy1(html))

\* the callbacks given to transformTextNodes
wrapRomanText(text) == ReplaceEach(text, wrapContextualRomanNumeralsSteps)

wrapAbbrText(text) == ReplaceEach(text, wrapAbbreviationsSteps)

markUnitsText(text) == ReplaceEach(text, markMeasurementUnitsSteps)

wrapContextualRomanNumerals(html) == transformTextNodes(html, wrapRomanText)

wrapAbbreviations(html) == transformTextNodes(html, wrapAbbrText)

markMeasurementUnits(html) == transformTextNodes(html, markUnitsText)

-----------------------------------------------------------------------------
(* The content cleaner.                                                     *)

\* cleanChapterHtml: remove scripts and styles
removeStyleAndScriptSteps ==
    \* s.replace(/<style[^>]*>[\s\S]*?<\/style>/gi, '')
    << <<Cat(<<Chars({60}), Chars({83, 115}), Chars({84, 116}), Chars({89,
           121}), Chars({76, 108}), Chars({69, 101}), Rep(NotChars({62}), 0,
           Inf), Chars({62}), Lazy(AnyChar, 0, Inf), Chars({60}),
           Chars({47}), Chars({83, 115}), Chars({84, 116}), Chars({89, 121}),
           Chars({76, 108}), Chars({69, 101}), Chars({62})>>),
         <<>>>>,
    \* s.replace(/<script[^>]*>[\s\S]*?<\/script>/gi, '')
       <<Cat(<<Chars({60}), Chars({83, 115}), Chars({67, 99}), Chars({82,
           114}), Chars({73, 105}), Chars({80, 112}), Chars({84, 116}),
           Rep(NotChars({62}), 0, Inf), Chars({62}), Lazy(AnyChar, 0, Inf),
           Chars({60}), Chars({47}), Chars({83, 115}), Chars({67, 99}),
           Chars({82, 114}), Chars({73, 105}), Chars({80, 112}), Chars({84,
           116}), Chars({62})>>),
         <<>>>> >>

\* cleanGutenbergContent: remove START/END blocks
removeStartEndSteps ==
    \* s.replace(/\*\*\*\s*START OF (THIS |THE )?PROJECT GUTENBERG[\s\S]*?\*\*\*/gi, '')
    << <<Cat(<<Chars({42}), Chars({42}), Chars({42}), Rep(Chars(WhiteSpace),
           0, Inf), Chars({83, 115}), Chars({84, 116}), Chars({65, 97}),
           Chars({82, 114}), Chars({84, 116}), Chars({32}), Chars({79, 111}),
           Chars({70, 102}), Chars({32}), Rep(Group(1, Alt(<<Cat(<<Chars({84,
           116}), Chars({72, 104}), Chars({73, 105}), Chars({83, 115}),
           Chars({32})>>), Cat(<<Chars({84, 116}), Chars({72, 104}),
           Chars({69, 101}), Chars({32})>>)>>)), 0, 1), Chars({80, 112}),
           Chars({82, 114}), Chars({79, 111}), Chars({74, 106}), Chars({69,
           101}), Chars({67, 99}), Chars({84, 116}), Chars({32}), Chars({71,
           103}), Chars({85, 117}), Chars({84, 116}), Chars({69, 101}),
           Chars({78, 110}), Chars({66, 98}), Chars({69, 101}), Chars({82,
           114}), Chars({71, 103}), Lazy(AnyChar, 0, Inf), Chars({42}),
           Chars({42}), Chars({42})>>),
         <<>>>>,
    \* s.replace(/\*\*\*\s*END OF (THIS |THE )?PROJECT GUTENBERG[\s\S]*$/gi, '')
       <<Cat(<<Chars({42}), Chars({42}), Chars({42}), Rep(Chars(WhiteSpace),
           0, Inf), Chars({69, 101}), Chars({78, 110}), Chars({68, 100}),
           Chars({32}), Chars({79, 111}), Chars({70, 102}), Chars({32}),
           Rep(Group(1, Alt(<<Cat(<<Chars({84, 116}), Chars({72, 104}),
           Chars({73, 105}), Chars({83, 115}), Chars({32})>>),
           Cat(<<Chars({84, 116}), Chars({72, 104}), Chars({69, 101}),
           Chars({32})>>)>>)), 0, 1), Chars({80, 112}), Chars({82, 114}),
           Chars({79, 111}), Chars({74, 106}), Chars({69, 101}), Chars({67,
           99}), Chars({84, 116}), Chars({32}), Chars({71, 103}), Chars({85,
           117}), Chars({84, 116}), Chars({69, 101}), Chars({78, 110}),
           Chars({66, 98}), Chars({69, 101}), Chars({82, 114}), Chars({71,
           103}), Rep(AnyChar, 0, Inf), Eol>>),
         <<>>>> >>

\* cleanGutenbergContent: the loop over GUTENBERG_PATTERNS, one replace with
\* new RegExp(`<(${BLOCK_TAGS})\\b[^>]*>[\\s\\S]*?${pattern.source}[\\s\\S]*?<\\/\\1>`, 'gi')
\* for each pattern; the patterns here are those that are found in a text made
\* of the tokens below (no other pattern of the list is)
removeBlocksSteps ==
    \* s.replace(/<(p|div|span|pre|h[1-6]|li|blockquote)\b[^>]*>[\s\S]*?END OF (THIS |THE )?PROJECT GUTENBERG[\s\S]*?<\/\1>/gi, '')
    << <<Cat(<<Chars({60}), Group(1, Alt(<<Chars({80, 112}), Cat(<<Chars({68,
           100}), Chars({73, 105}), Chars({86, 118})>>), Cat(<<Chars({83,
           115}), Chars({80, 112}), Chars({65, 97}), Chars({78, 110})>>),
           Cat(<<Chars({80, 112}), Chars({82, 114}), Chars({69, 101})>>),
           Cat(<<Chars({72, 104}), Chars({49, 50, 51, 52, 53, 54})>>),
           Cat(<<Chars({76, 108}), Chars({73, 105})>>), Cat(<<Chars({66,
           98}), Chars({76, 108}), Chars({79, 111}), Chars({67, 99}),
           Chars({75, 107}), Chars({81, 113}), Chars({85, 117}), Chars({79,
           111}), Chars({84, 116}), Chars({69, 101})>>)>>)), WordB,
           Rep(NotChars({62}), 0, Inf), Chars({62}), Lazy(AnyChar, 0, Inf),
           Chars({69, 101}), Chars({78, 110}), Chars({68, 100}), Chars({32}),
           Chars({79, 111}), Chars({70, 102}), Chars({32}), Rep(Group(2,
           Alt(<<Cat(<<Chars({84, 116}), Chars({72, 104}), Chars({73, 105}),
           Chars({83, 115}), Chars({32})>>), Cat(<<Chars({84, 116}),
           Chars({72, 104}), Chars({69, 101}), Chars({32})>>)>>)), 0, 1),
           Chars({80, 112}), Chars({82, 114}), Chars({79, 111}), Chars({74,
           106}), Chars({69, 101}), Chars({67, 99}), Chars({84, 116}),
           Chars({32}), Chars({71, 103}), Chars({85, 117}), Chars({84, 116}),
           Chars({69, 101}), Chars({78, 110}), Chars({66, 98}), Chars({69,
           101}), Chars({82, 114}), Chars({71, 103}), Lazy(AnyChar, 0, Inf),
           Chars({60}), Chars({47}), BackRef(1, TRUE), Chars({62})>>),
         <<>>>>,
    \* s.replace(/<(p|div|span|pre|h[1-6]|li|blockquote)\b[^>]*>[\s\S]*?\*\*\* END OF[\s\S]*?<\/\1>/gi, '')
       <<Cat(<<Chars({60}), Group(1, Alt(<<Chars({80, 112}), Cat(<<Chars({68,
           100}), Chars({73, 105}), Chars({86, 118})>>), Cat(<<Chars({83,
           115}), Chars({80, 112}), Chars({65, 97}), Chars({78, 110})>>),
           Cat(<<Chars({80, 112}), Chars({82, 114}), Chars({69, 101})>>),
           Cat(<<Chars({72, 104}), Chars({49, 50, 51, 52, 53, 54})>>),
           Cat(<<Chars({76, 108}), Chars({73, 105})>>), Cat(<<Chars({66,
           98}), Chars({76, 108}), Chars({79, 111}), Chars({67, 99}),
           Chars({75, 107}), Chars({81, 113}), Chars({85, 117}), Chars({79,
           111}), Chars({84, 116}), Chars({69, 101})>>)>>)), WordB,
           Rep(NotChars({62}), 0, Inf), Chars({62}), Lazy(AnyChar, 0, Inf),
           Chars({42}), Chars({42}), Chars({42}), Chars({32}), Chars({69,
           101}), Chars({78, 110}), Chars({68, 100}), Chars({32}), Chars({79,
           111}), Chars({70, 102}), Lazy(AnyChar, 0, Inf), Chars({60}),
           Chars({47}), BackRef(1, TRUE), Chars({62})>>),
         <<>>>>,
    \* s.replace(/<(p|div|span|pre|h[1-6]|li|blockquote)\b[^>]*>[\s\S]*?Produced by[\s\S]*?<\/\1>/gi, '')
       <<Cat(<<Chars({60}), Group(1, Alt(<<Chars({80, 112}), Cat(<<Chars({68,
           100}), Chars({73, 105}), Chars({86, 118})>>), Cat(<<Chars({83,
           115}), Chars({80, 112}), Chars({65, 97}), Chars({78, 110})>>),
           Cat(<<Chars({80, 112}), Chars({82, 114}), Chars({69, 101})>>),
           Cat(<<Chars({72, 104}), Chars({49, 50, 51, 52, 53, 54})>>),
           Cat(<<Chars({76, 108}), Chars({73, 105})>>), Cat(<<Chars({66,
           98}), Chars({76, 108}), Chars({79, 111}), Chars({67, 99}),
           Chars({75, 107}), Chars({81, 113}), Chars({85, 117}), Chars({79,
           111}), Chars({84, 116}), Chars({69, 101})>>)>>)), WordB,
           Rep(NotChars({62}), 0, Inf), Chars({62}), Lazy(AnyChar, 0, Inf),
           Chars({80, 112}), Chars({82, 114}), Chars({79, 111}), Chars({68,
           100}), Chars({85, 117}), Chars({67, 99}), Chars({69, 101}),
           Chars({68, 100}), Chars({32}), Chars({66, 98}), Chars({89, 121}),
           Lazy(AnyChar, 0, Inf), Chars({60}), Chars({47}), BackRef(1, TRUE),
           Chars({62})>>),
         <<>>>> >>

\* cleanGutenbergContent: remove links to gutenberg.org, normalize whitespace
removeLinksAndBlankLinesSteps ==
    \* s.replace(/<a[^>]*href="[^"]*gutenberg\.org[^"]*"[^>]*>[\s\S]*?<\/a>/gi, '')
    << <<Cat(<<Chars({60}), Chars({65, 97}), Rep(NotChars({62}), 0, Inf),
           Chars({72, 104}), Chars({82, 114}), Chars({69, 101}), Chars({70,
           102}), Chars({61}), Chars({34}), Rep(NotChars({34}), 0, Inf),
           Chars({71, 103}), Chars({85, 117}), Chars({84, 116}), Chars({69,
           101}), Chars({78, 110}), Chars({66, 98}), Chars({69, 101}),
           Chars({82, 114}), Chars({71, 103}), Chars({46}), Chars({79, 111}),
           Chars({82, 114}), Chars({71, 103}), Rep(NotChars({34}), 0, Inf),
           Chars({34}), Rep(NotChars({62}), 0, Inf), Chars({62}),
           Lazy(AnyChar, 0, Inf), Chars({60}), Chars({47}), Chars({65, 97}),
           Chars({62})>>),
         <<>>>>,
    \* s.replace(/\n\s*\n\s*\n/g, '\u000A\u000A')
       <<Cat(<<Chars({10}), Rep(Chars(WhiteSpace), 0, Inf), Chars({10}),
           Rep(Chars(WhiteSpace), 0, Inf), Chars({10})>>),
         <<<<"lit", <<10, 10>>>>>>>> >>

removePgInlineMarkersSteps ==
    \* s.replace(/\[Illustration(?::\s*[^\]]*?)?\]/gi, '')
    << <<Cat(<<Chars({91}), Chars({73, 105}), Chars({76, 108}), Chars({76,
           108}), Chars({85, 117}), Chars({83, 115}), Chars({84, 116}),
           Chars({82, 114}), Chars({65, 97}), Chars({84, 116}), Chars({73,
           105}), Chars({79, 111}), Chars({78, 110}), Rep(Cat(<<Chars({58}),
           Rep(Chars(WhiteSpace), 0, Inf), Lazy(NotChars({93}), 0, Inf)>>),
           0, 1), Chars({93})>>),
         <<>>>>,
    \* s.replace(/\[Footnote:\s*[^\]]*?\]/gi, '')
       <<Cat(<<Chars({91}), Chars({70, 102}), Chars({79, 111}), Chars({79,
           111}), Chars({84, 116}), Chars({78, 110}), Chars({79, 111}),
           Chars({84, 116}), Chars({69, 101}), Chars({58}),
           Rep(Chars(WhiteSpace), 0, Inf), Lazy(NotChars({93}), 0, Inf),
           Chars({93})>>),
         <<>>>>,
    \* s.replace(/\[pg?\.\s*\d+\]/gi, '')
       <<Cat(<<Chars({91}), Chars({80, 112}), Rep(Chars({71, 103}), 0, 1),
           Chars({46}), Rep(Chars(WhiteSpace), 0, Inf), Rep(Chars(Digits), 1,
           Inf), Chars({93})>>),
         <<>>>>,
    \* s.replace(/\{\d+\}/g, '')
       <<Cat(<<Chars({123}), Rep(Chars(Digits), 1, Inf), Chars({125})>>),
         <<>>>> >>

removeEndnoteLinksSteps ==
    \* s.replace(/<a\b[^>]*href=["'][^"']*(?:endnote|footnote|#fn|#note|#ref)[^"']*["'][^>]*>([\s\S]*?)<\/a>/gi, '$1')
    << <<Cat(<<Chars({60}), Chars({65, 97}), WordB, Rep(NotChars({62}), 0,
           Inf), Chars({72, 104}), Chars({82, 114}), Chars({69, 101}),
           Chars({70, 102}), Chars({61}), Chars({34, 39}), Rep(NotChars({34,
           39}), 0, Inf), Alt(<<Cat(<<Chars({69, 101}), Chars({78, 110}),
           Chars({68, 100}), Chars({78, 110}), Chars({79, 111}), Chars({84,
           116}), Chars({69, 101})>>), Cat(<<Chars({70, 102}), Chars({79,
           111}), Chars({79, 111}), Chars({84, 116}), Chars({78, 110}),
           Chars({79, 111}), Chars({84, 116}), Chars({69, 101})>>),
           Cat(<<Chars({35}), Chars({70, 102}), Chars({78, 110})>>),
           Cat(<<Chars({35}), Chars({78, 110}), Chars({79, 111}), Chars({84,
           116}), Chars({69, 101})>>), Cat(<<Chars({35}), Chars({82, 114}),
           Chars({69, 101}), Chars({70, 102})>>)>>), Rep(NotChars({34, 39}),
           0, Inf), Chars({34, 39}), Rep(NotChars({62}), 0, Inf),
           Chars({62}), Group(1, Lazy(AnyChar, 0, Inf)), Chars({60}),
           Chars({47}), Chars({65, 97}), Chars({62})>>),
         <<<<"cap", 1>>>>>> >>

cleanGutenbergContent(html) ==
    IF html = <<>> THEN html
    ELSE trim(ReplaceEach(html, removeStartEndSteps \o removeBlocksSteps
                                    \o removeLinksAndBlankLinesSteps))

removePgInlineMarkers(html) ==
    IF html = <<>> THEN html ELSE ReplaceEach(html, removePgInlineMarkersSteps)

removeEndnoteLinks(html) ==
    IF html = <<>> THEN html ELSE ReplaceEach(html, removeEndnoteLinksSteps)

-----------------------------------------------------------------------------
(* The spelling modernizer.                                                 *)

\* allReplacements: the rows that can match a text made of the tokens below (no
\* other row of the six dictionaries matches such a text), in their order
allReplacements ==
    \* s.replace(/\becstacy\b/gi, 'ecstasy')
    << <<Cat(<<WordB, Chars({69, 101}), Chars({67, 99}), Chars({83, 115}),
           Chars({84, 116}), Chars({65, 97}), Chars({67, 99}), Chars({89,
           121}), WordB>>),
         <<<<"lit", <<101, 99, 115, 116, 97, 115, 121>>>>>>>>,
    \* s.replace(/\binclose\b/gi, 'enclose')
       <<Cat(<<WordB, Chars({73, 105}), Chars({78, 110}), Chars({67, 99}),
           Chars({76, 108}), Chars({79, 111}), Chars({83, 115}), Chars({69,
           101}), WordB>>),
         <<<<"lit", <<101, 110, 99, 108, 111, 115, 101>>>>>>>>,
    \* s.replace(/\u00E6/g, 'ae')
       <<Chars({230}),
         <<<<"lit", <<97, 101>>>>>>>> >>

\* /([^<]+)|(<[^>]*>)/g
TextOrTagRe ==
    Alt(<<Group(1, Rep(NotChars({60}), 1, Inf)), Group(2, Cat(<<Chars({60}),
      Rep(NotChars({62}), 0, Inf), Chars({62})>>))>>)

\* the callback: a tag is left alone, a text part goes through every replacement
ModernizeText(s, m) ==
    IF Cap(s, m, 1) = <<>> THEN Cap(s, m, 0)
    ELSE ReplaceEach(Cap(s, m, 1), allReplacements)

\* (a variant that runs the replacements over the whole string, tags included)
modernizeSpelling_WholeHtml(html) == ReplaceEach(html, allReplacements)

modernizeSpelling(html) ==
    ReplaceWith(html, AllMatches(TextOrTagRe, html, 1), ModernizeText)

-----------------------------------------------------------------------------
(* The foreign phrase tagger.                                               *)

\* FOREIGN_PHRASES: the rows that can match a text made of the tokens below (no
\* other row of the dictionary matches such a text), each with its pattern's
\* source text
FOREIGN_PHRASES ==
    <<
    \* [/\bmonsieur\b/gi, 'fr']
       [src |-> <<92, 98, 109, 111, 110, 115, 105, 101, 117, 114, 92, 98>>,
        re |->
          Cat(<<WordB, Chars({77, 109}), Chars({79, 111}), Chars({78, 110}),
            Chars({83, 115}), Chars({73, 105}), Chars({69, 101}), Chars({85,
            117}), Chars({82, 114}), WordB>>),
        lang |-> <<102, 114>>],
    \* [/\ben route\b/gi, 'fr']
       [src |-> <<92, 98, 101, 110, 32, 114, 111, 117, 116, 101, 92, 98>>,
        re |->
          Cat(<<WordB, Chars({69, 101}), Chars({78, 110}), Chars({32}),
            Chars({82, 114}), Chars({79, 111}), Chars({85, 117}), Chars({84,
            116}), Chars({69, 101}), WordB>>),
        lang |-> <<102, 114>>]
    >>

\* /\\s|\\b\w+[- ]\w+/
StandaloneSourceRe ==
    Alt(<<Cat(<<Chars({92}), Chars({115})>>), Cat(<<Chars({92}), Chars({98}),
      Rep(Chars(WordChars), 1, Inf), Chars({32, 45}), Rep(Chars(WordChars),
      1, Inf)>>)>>)

\* /\\[bsgidnS]/g
EscapeLetterRe ==
    Cat(<<Chars({92}), Chars({83, 98, 100, 103, 105, 110, 115})>>)

\* /<(i|em)(\b[^>]*)>([\s\S]*?)<\/\1>/gi
ItalicRe ==
    Cat(<<Chars({60}), Group(1, Alt(<<Chars({73, 105}), Cat(<<Chars({69,
      101}), Chars({77, 109})>>)>>)), Group(2, Cat(<<WordB,
      Rep(NotChars({62}), 0, Inf)>>)), Chars({62}), Group(3, Lazy(AnyChar, 0,
      Inf)), Chars({60}), Chars({47}), BackRef(1, TRUE), Chars({62})>>)

\* /xml:lang/i
XmlLangRe ==
    Cat(<<Chars({88, 120}), Chars({77, 109}), Chars({76, 108}), Chars({58}),
      Chars({76, 108}), Chars({65, 97}), Chars({78, 110}), Chars({71,
      103})>>)

\* /[\s,;:!?.]+/
WordSeparatorRe ==
    Rep(Chars((WhiteSpace \cup {33, 44, 46, 58, 59, 63})), 1, Inf)

\* /[a-zA-Z\u00C0-\u024F]/
LetterRe ==
    Chars((65..90 \cup 97..122 \cup 192..591))

\* /[\u00E4\u00F6\u00FC\u00DF]/i
GERMAN_CHARS ==
    Chars({196, 214, 220, 223, 228, 246, 252})

\* /[\u00F1\u00E1\u00E9\u00ED\u00F3\u00FA\u00BF\u00A1]/i
SPANISH_CHARS ==
    Chars({161, 191, 193, 201, 205, 209, 211, 218, 225, 233, 237, 241, 243,
      250})

\* /[\u00E7\u0153]/
FrenchOnlyRe ==
    Chars({231, 339})

\* /[\u00E0\u00E2\u00E7\u00E8\u00E9\u00EA\u00EB\u00EE\u00EF\u00F4\u00F9\u00FB\u00FC\u0153]/i
FRENCH_CHARS ==
    Chars({192, 194, 199, 200, 201, 202, 203, 206, 207, 212, 217, 219, 220,
      224, 226, 231, 232, 233, 234, 235, 238, 239, 244, 249, 251, 252, 338,
      339})

\* /[\u00E0\u00E8\u00EC\u00F2\u00F9]/i
ITALIAN_CHARS ==
    Chars({192, 200, 204, 210, 217, 224, 232, 236, 242, 249})

\* " xml:lang=""
XmlLangAttr == <<32, 120, 109, 108, 58, 108, 97, 110, 103, 61, 34>>

\* "<i xml:lang=""
StandaloneOpen == <<60, 105, 32, 120, 109, 108, 58, 108, 97, 110, 103, 61, 34>>

\* "</i>"
ItalicClose == <<60, 47, 105, 62>>

\* the members of ENGLISH_WORDS among the words of the tokens below: the, old, man
ENGLISH_WORDS == {<<116, 104, 101>>, <<111, 108, 100>>, <<109, 97, 110>>}

\* the filter of STANDALONE_WRAP_PHRASES, on a pattern's source text
IsStandalone(row) ==
    \/ Test(StandaloneSourceRe, row.src)
    \/ Test(Lit(<<32>>), Replace(row.src, EscapeLetterRe, <<>>))

STANDALONE_WRAP_PHRASES == SelectSeq(FOREIGN_PHRASES, IsStandalone)

guessLanguageFromChars(text) ==
    IF Test(GERMAN_CHARS, text) THEN <<100, 101>>           \* de
    ELSE IF Test(SPANISH_CHARS, text) THEN <<101, 115>>     \* es
    ELSE IF Test(FrenchOnlyRe, text) THEN <<102, 114>>      \* fr
    ELSE IF Test(FRENCH_CHARS, text) THEN <<102, 114>>      \* fr
    ELSE IF Test(ITALIAN_CHARS, text) THEN <<105, 116>>     \* it
    ELSE <<108, 97>>                                        \* la

\* `<${tag}${attrs} xml:lang="${lang}">${content}</${tag}>`
WithLang(s, m, lang) ==
    <<LT>> \o Cap(s, m, 1) \o Cap(s, m, 2) \o XmlLangAttr \o lang \o <<34, GT>>
        \o Cap(s, m, 3) \o <<LT, 47>> \o Cap(s, m, 1) \o <<GT>>

\* the rows of FOREIGN_PHRASES whose pattern is found in the text, in order
PhrasesIn(text) == SelectSeq(FOREIGN_PHRASES, LAMBDA row : Test(row.re, text))

\* the callback of tagItalicForeignPhrases
ItalicByPhrase(s, m) ==
    IF Test(XmlLangRe, Cap(s, m, 2)) THEN Cap(s, m, 0)
    ELSE IF PhrasesIn(trim(Cap(s, m, 3))) = <<>> THEN Cap(s, m, 0)
    ELSE WithLang(s, m, PhrasesIn(trim(Cap(s, m, 3)))[1].lang)

tagItalicForeignPhrases(html) ==
    ReplaceWith(html, AllMatches(ItalicRe, html, 1), ItalicByPhrase)

\* processed.replace(pattern, m => `<i xml:lang="${lang}">${m}</i>`), one
\* step for each row of STANDALONE_WRAP_PHRASES
StandaloneSteps ==
    [k \in 1..Len(STANDALONE_WRAP_PHRASES) |->
        <<STANDALONE_WRAP_PHRASES[k].re,
          <<<<"lit", StandaloneOpen \o STANDALONE_WRAP_PHRASES[k].lang \o <<34, GT>>>>,
            <<"cap", 0>>,
            <<"lit", ItalicClose>>>>>>]

\* one segment of the loop: a tag, and the rest after a '<' that is never
\* closed, are pushed as they are
StandaloneSegment(seg) ==
    IF seg.isTag THEN seg.text
    ELSE IF seg.text # <<>> /\ seg.text[1] = LT THEN seg.text
    ELSE ReplaceEach(seg.text, StandaloneSteps)

wrapStandaloneForeignPhrases(html) ==
    Flatten([k \in 1..Len(splitHtmlSegments(html)) |->
                StandaloneSegment(splitHtmlSegments(html)[k])])

\* plainText.split(/[\s,;:!?.]+/).filter(w => /[a-zA-ZÀ-ɏ]/.test(w))
SplitWords(plainText, seps) ==
    SelectSeq([j \in 1..(Len(seps) + 1) |-> Gap(plainText, seps, j - 1)],
              LAMBDA w : Test(LetterRe, w))

WordsOf(plainText) == SplitWords(plainText, AllMatches(WordSeparatorRe, plainText, 1))

englishCount(words) ==
    Len(SelectSeq(words, LAMBDA word : toLowerCase(word) \in ENGLISH_WORDS))

\* the callback of tagItalicNonEnglish, from the plain text on
NonEnglishText(s, m, plainText, words) ==
    IF plainText = <<>> THEN Cap(s, m, 0)
    ELSE IF Len(words) < 2 THEN Cap(s, m, 0)
    \* englishCount / words.length < 0.4
    ELSE IF 10 * englishCount(words) < 4 * Len(words)
         THEN WithLang(s, m, guessLanguageFromChars(plainText))
         ELSE Cap(s, m, 0)

PlainTextOf(content) == trim(Replace(content, AnyTagRe, <<>>))

ItalicNonEnglish(s, m) ==
    IF Test(XmlLangRe, Cap(s, m, 2)) THEN Cap(s, m, 0)
    ELSE NonEnglishText(s, m, PlainTextOf(Cap(s, m, 3)), WordsOf(PlainTextOf(Cap(s, m, 3))))

tagItalicNonEnglish(html) ==
    ReplaceWith(html, AllMatches(ItalicRe, html, 1), ItalicNonEnglish)

-----------------------------------------------------------------------------
(* A transform called on a string and then on its own result.              *)

\* the most tokens an input string is made of
MaxTokens == 2

\* the concatenations of at most n strings of the set P
RECURSIVE Concats(_, _)
Concats(P, n) ==
    IF n = 0 THEN {<<>>}
    ELSE {<<>>} \cup {t \o r : t \in P, r \in Concats(P, n - 1)}

\* pieces of HTML that typographize is called on
TypographizeTokens ==
    { <<49, 45, 50>>,    \* 1-2
      <<45, 51>>,    \* -3
      <<60, 112, 62, 42, 32, 42, 32, 42, 60, 47, 112, 62>>,    \* <p>* * *</p>
      <<60, 97, 32, 116, 105, 116, 108, 101, 61, 34, 105, 116, 39, 115, 32, 49, 45, 50, 34, 62>>,    \* <a title="it's 1-2">
      <<32, 45, 45, 32>>,    \*  -- 
      <<77, 114, 46, 32, 88>>,    \* Mr. X
      <<46, 46, 46>>,    \* ...
      <<34, 39, 72, 105, 39, 34>> }    \* "'Hi'"

\* pieces of a text segment that smartQuotes is called on
SmartQuotesTokens ==
    { <<39, 116, 105, 115>>,    \* 'tis
      <<32>>,    \*  
      <<39, 101, 109>>,    \* 'em
      <<100, 111, 110, 39, 116>>,    \* don't
      <<39, 57, 48, 115>>,    \* '90s
      <<34>>,    \* "
      <<39, 116, 119, 97, 115>> }    \* 'twas

\* pieces of chapter HTML that semanticize is called on
SemanticizeTokens ==
    \* Mr. Darcy
    { <<77, 114, 46, 32, 68, 97, 114, 99, 121>>,
    \* <h1>Chapter IV</h1>
      <<60, 104, 49, 62, 67, 104, 97, 112, 116, 101, 114, 32, 73, 86, 60, 47, 104, 49, 62>>,
    \* <h2 id="Mr.">5 miles</h2>
      <<60, 104, 50, 32, 105, 100, 61, 34, 77, 114, 46, 34, 62, 53, 32, 109, 105, 108, 101, 115, 60, 47, 104, 50, 62>>,
    \* <p class="verse">a</p>
      <<60, 112, 32, 99, 108, 97, 115, 115, 61, 34, 118, 101, 114, 115, 101, 34, 62, 97, 60, 47, 112, 62>>,
    \* <blockquote>a<br/>b<br/>c<br/>d</blockquote>
      <<60, 98, 108, 111, 99, 107, 113, 117, 111, 116, 101, 62, 97, 60, 98, 114, 47, 62, 98, 60, 98, 114, 47, 62, 99, 60, 98, 114, 47, 62, 100, 60, 47, 98, 108, 111, 99, 107, 113, 117, 111, 116, 101, 62>>,
    \* <section>x</section>
      <<60, 115, 101, 99, 116, 105, 111, 110, 62, 120, 60, 47, 115, 101, 99, 116, 105, 111, 110, 62>>,
    \*  
      <<32>> }

\* pieces of chapter HTML that tagForeignPhrases is called on
TagForeignTokens ==
    \* en route
    { <<101, 110, 32, 114, 111, 117, 116, 101>>,
      \* <i>en route</i>
      <<60, 105, 62, 101, 110, 32, 114, 111, 117, 116, 101, 60, 47, 105, 62>>,
      \* <i>monsieur</i>
      <<60, 105, 62, 109, 111, 110, 115, 105, 101, 117, 114, 60, 47, 105, 62>>,
      \* <em>lorem ipsum</em>
      <<60, 101, 109, 62, 108, 111, 114, 101, 109, 32, 105, 112, 115, 117, 109, 60, 47, 101, 109, 62>>,
      \* <i>the old man</i>
      <<60, 105, 62, 116, 104, 101, 32, 111, 108, 100, 32, 109, 97, 110, 60, 47, 105, 62>>,
      \*  
      <<32>>,
      \* <i xml:lang="fr">monsieur</i>
      <<60, 105, 32, 120, 109, 108, 58, 108, 97, 110, 103, 61, 34, 102, 114, 34, 62, 109, 111, 110, 115, 105, 101, 117, 114, 60, 47, 105, 62>>,
      \* <i en route
      <<60, 105, 32, 101, 110, 32, 114, 111, 117, 116, 101>> }
\* pieces of chapter HTML that modernizeSpelling is called on
ModernizeTokens ==
    \* ecstacy
    { <<101, 99, 115, 116, 97, 99, 121>>,
    \* <p class="inclose">
      <<60, 112, 32, 99, 108, 97, 115, 115, 61, 34, 105, 110, 99, 108, 111, 115, 101, 34, 62>>,
    \* inclose
      <<105, 110, 99, 108, 111, 115, 101>>,
    \*  
      <<32>>,
    \* æther
      <<230, 116, 104, 101, 114>>,
    \* <b
      <<60, 98>> }
\* pieces of chapter HTML that cleanChapterHtml is called on
CleanTokens ==
    \* <p>Hello</p>
    { <<60, 112, 62, 72, 101, 108, 108, 111, 60, 47, 112, 62>>,
    \* <p>Produced by X</p>
      <<60, 112, 62, 80, 114, 111, 100, 117, 99, 101, 100, 32, 98, 121, 32, 88, 60, 47, 112, 62>>,
    \* <div>Hi</div>
      <<60, 100, 105, 118, 62, 72, 105, 60, 47, 100, 105, 118, 62>>,
    \* *** END OF PROJECT GUTENBERG
      <<42, 42, 42, 32, 69, 78, 68, 32, 79, 70, 32, 80, 82, 79, 74, 69, 67, 84, 32, 71, 85, 84, 69, 78, 66, 69, 82, 71>>,
    \* {4}
      <<123, 52, 125>> }

\* pieces of chapter HTML that normalizeHeadingLevels is called on
HeadingTokens ==
    \* <h1>A</h1>
    { <<60, 104, 49, 62, 65, 60, 47, 104, 49, 62>>,
    \* <h2 class="h1">B</h2>
      <<60, 104, 50, 32, 99, 108, 97, 115, 115, 61, 34, 104, 49, 34, 62, 66, 60, 47, 104, 50, 62>>,
    \* <h5>c</h5>
      <<60, 104, 53, 62, 99, 60, 47, 104, 53, 62>>,
    \* <h6>d</h6>
      <<60, 104, 54, 62, 100, 60, 47, 104, 54, 62>>,
    \* <H1 id="x">E</H1>
      <<60, 72, 49, 32, 105, 100, 61, 34, 120, 34, 62, 69, 60, 47, 72, 49, 62>>,
    \* <p>h1</p>
      <<60, 112, 62, 104, 49, 60, 47, 112, 62>>,
    \* <h3>
      <<60, 104, 51, 62>> }

Transforms ==
    {"typographize", "smartQuotes", "semanticize", "tagForeignPhrases", "modernizeSpelling"}

Tokens(fn) ==
    CASE fn = "typographize" -> TypographizeTokens
      [] fn = "smartQuotes" -> SmartQuotesTokens
      [] fn = "semanticize" -> SemanticizeTokens
      [] fn = "tagForeignPhrases" -> TagForeignTokens
      [] fn = "modernizeSpelling" -> ModernizeTokens
      [] fn = "cleanChapterHtml" -> CleanTokens
      [] fn = "normalizeHeadingLevels" -> HeadingTokens

\* the first statement of each function
Entry(fn) ==
    CASE fn = "typographize" -> "normalizeSectionBreaks"
      [] fn = "smartQuotes" -> "smartQuotes"
      [] fn = "semanticize" -> "wrapChapterSection"
      [] fn = "tagForeignPhrases" -> "tagItalicForeignPhrases"
      [] fn = "modernizeSpelling" -> "modernizeSpelling"
      [] fn = "cleanChapterHtml" -> "removeStyleAndScript"
      [] fn = "normalizeHeadingLevels" -> "normalizeHeadingLevels"

\* the functions that begin with  if (!html) return html
ReturnsEmptyAtOnce ==
    {"typographize", "semanticize", "tagForeignPhrases", "cleanChapterHtml"}

TInit ==
    /\ tFn \in Transforms
    /\ tIn \in Concats(Tokens(tFn), MaxTokens)
    /\ tArg = tIn
    /\ tCur = tIn
    /\ tPc = Entry(tFn)
    /\ tRun = 1
    /\ tSegs = <<>>
    /\ tSeg = 0
    /\ tStep = ""

TFrame == UNCHANGED <<qvars, pvars, bvars, svars, evars, gvars, kvars, dvars>>

\* one statement: the local becomes `to`, control goes to `next`
Step(fn, at, to, next) ==
    /\ tFn = fn
    /\ tPc = at
    /\ ~(fn \in ReturnsEmptyAtOnce /\ tArg = <<>>)
    /\ tCur' = to
    /\ tPc' = next
    /\ UNCHANGED <<tFn, tIn, tArg, tRun, tSegs, tSeg, tStep>>
    /\ TFrame

\* if (!html) return html
ReturnEmpty ==
    /\ tFn \in ReturnsEmptyAtOnce
    /\ tPc = Entry(tFn)
    /\ tArg = <<>>
    /\ tPc' = "return"
    /\ UNCHANGED <<tFn, tIn, tArg, tCur, tRun, tSegs, tSeg, tStep>>
    /\ TFrame

\* the function is called once more, on what it returned
CallAgain ==
    /\ tPc = "return"
    /\ tRun = 1
    /\ tRun' = 2
    /\ tArg' = tCur
    /\ tPc' = Entry(tFn)
    /\ UNCHANGED <<tFn, tIn, tCur, tSegs, tSeg, tStep>>
    /\ TFrame

\* typographize: let result = normalizeSectionBreaks(html)
Typographize_SectionBreaks ==
    Step("typographize", "normalizeSectionBreaks", normalizeSectionBreaks(tCur),
         "transformTextNodes")

\* typographize: result = transformTextNodes(result, typographizeTextNode)
\* begins: const segments = splitHtmlSegments(html)
Typographize_Split ==
    /\ tFn = "typographize"
    /\ tPc = "transformTextNodes"
    /\ tSeg = 0
    /\ tSegs' = splitHtmlSegments(tCur)
    /\ tSeg' = 1
    /\ tStep' = "smartQuotes"
    /\ UNCHANGED <<tFn, tIn, tArg, tCur, tPc, tRun>>
    /\ TFrame

\* the map callback on a tag segment:  seg.isTag ? seg.text : ...
Typographize_TagSegment ==
    /\ tFn = "typographize"
    /\ tPc = "transformTextNodes"
    /\ tSeg \in 1..Len(tSegs)
    /\ tSegs[tSeg].isTag
    /\ tSeg' = tSeg + 1
    /\ UNCHANGED <<tFn, tIn, tArg, tCur, tPc, tRun, tSegs, tStep>>
    /\ TFrame

\* one statement  s = f(s)  of typographizeTextNode, called on a text segment
TextNodeStep(at, to, next) ==
    /\ tFn = "typographize"
    /\ tPc = "transformTextNodes"
    /\ tSeg \in 1..Len(tSegs)
    /\ ~tSegs[tSeg].isTag
    /\ tStep = at
    /\ tSegs' = [tSegs EXCEPT ![tSeg].text = to]
    /\ tStep' = next
    /\ tSeg' = IF next = "smartQuotes" THEN tSeg + 1 ELSE tSeg
    /\ UNCHANGED <<tFn, tIn, tArg, tCur, tPc, tRun>>
    /\ TFrame

TextNode_smartQuotes ==
    TextNodeStep("smartQuotes", smartQuotes(tSegs[tSeg].text), "normalizeEmDashes")

TextNode_normalizeEmDashes ==
    TextNodeStep("normalizeEmDashes", normalizeEmDashes(tSegs[tSeg].text),
                 "normalizeMultiEmDashes")

TextNode_normalizeMultiEmDashes ==
    TextNodeStep("normalizeMultiEmDashes", normalizeMultiEmDashes(tSegs[tSeg].text),
                 "normalizeEnDashes")

TextNode_normalizeEnDashes ==
    TextNodeStep("normalizeEnDashes", normalizeEnDashes(tSegs[tSeg].text),
                 "normalizeEllipsis")

TextNode_normalizeEllipsis ==
    TextNodeStep("normalizeEllipsis", normalizeEllipsis(tSegs[tSeg].text),
                 "nbspAfterAbbreviations")

TextNode_nbspAfterAbbreviations ==
    TextNodeStep("nbspAfterAbbreviations", nbspAfterAbbreviations(tSegs[tSeg].text),
                 "insertHairSpaces")

\* the last statement; the callback returns s and the map goes on
TextNode_insertHairSpaces ==
    TextNodeStep("insertHairSpaces", insertHairSpaces(tSegs[tSeg].text), "smartQuotes")

\* .join('') of the mapped segments; return result
Typographize_Join ==
    /\ tFn = "typographize"
    /\ tPc = "transformTextNodes"
    /\ tSeg = Len(tSegs) + 1
    /\ tCur' = Flatten([k \in 1..Len(tSegs) |-> tSegs[k].text])
    /\ tPc' = "return"
    /\ tSegs' = <<>>
    /\ tSeg' = 0
    /\ tStep' = ""
    /\ UNCHANGED <<tFn, tIn, tArg, tRun>>
    /\ TFrame

\* smartQuotes(text) on one text segment
SmartQuotes == Step("smartQuotes", "smartQuotes", smartQuotes(tCur), "return")

\* the statements of semanticize, in order
Semanticize_wrapChapterSection ==
    Step("semanticize", "wrapChapterSection", wrapChapterSection(tCur),
         "normalizeHeadingLevels")

Semanticize_normalizeHeadingLevels ==
    Step("semanticize", "normalizeHeadingLevels", normalizeHeadingLevels(tCur),
         "detectVerseBlocks")

Semanticize_detectVerseBlocks ==
    Step("semanticize", "detectVerseBlocks", detectVerseBlocks(tCur),
         "wrapContextualRomanNumerals")

Semanticize_wrapContextualRomanNumerals ==
    Step("semanticize", "wrapContextualRomanNumerals", wrapContextualRomanNumerals(tCur),
         "wrapAbbreviations")

Semanticize_wrapAbbreviations ==
    Step("semanticize", "wrapAbbreviations", wrapAbbreviations(tCur),
         "markMeasurementUnits")

Semanticize_markMeasurementUnits ==
    Step("semanticize", "markMeasurementUnits", markMeasurementUnits(tCur), "return")

\* the statements of tagForeignPhrases, in order
Foreign_tagItalicForeignPhrases ==
    Step("tagForeignPhrases", "tagItalicForeignPhrases", tagItalicForeignPhrases(tCur),
         "wrapStandaloneForeignPhrases")

Foreign_wrapStandaloneForeignPhrases ==
    Step("tagForeignPhrases", "wrapStandaloneForeignPhrases",
         wrapStandaloneForeignPhrases(tCur), "tagItalicNonEnglish")

Foreign_tagItalicNonEnglish ==
    Step("tagForeignPhrases", "tagItalicNonEnglish", tagItalicNonEnglish(tCur), "return")

\* modernizeSpelling(html): one replace with a callback
ModernizeSpelling ==
    Step("modernizeSpelling", "modernizeSpelling", modernizeSpelling(tCur), "return")

\* the statements of cleanChapterHtml, in order
Clean_removeStyleAndScript ==
    Step("cleanChapterHtml", "removeStyleAndScript",
         ReplaceEach(tCur, removeStyleAndScriptSteps), "cleanGutenbergContent")

Clean_cleanGutenbergContent ==
    Step("cleanChapterHtml", "cleanGutenbergContent", cleanGutenbergContent(tCur),
         "removePgInlineMarkers")

Clean_removePgInlineMarkers ==
    Step("cleanChapterHtml", "removePgInlineMarkers", removePgInlineMarkers(tCur),
         "removeEndnoteLinks")

\* cleaned = removeEndnoteLinks(cleaned); return cleaned.trim()
Clean_removeEndnoteLinks ==
    Step("cleanChapterHtml", "removeEndnoteLinks", trim(removeEndnoteLinks(tCur)), "return")

\* normalizeHeadingLevels called on its own: one statement from entry to return
NormalizeHeadingLevels ==
    Step("normalizeHeadingLevels", "normalizeHeadingLevels",
         normalizeHeadingLevels(tCur), "return")

HeadingsNext ==
    \/ NormalizeHeadingLevels
    \/ CallAgain

CleanNext ==
    \/ ReturnEmpty
    \/ CallAgain
    \/ Clean_removeStyleAndScript
    \/ Clean_cleanGutenbergContent
    \/ Clean_removePgInlineMarkers
    \/ Clean_removeEndnoteLinks

TNext ==
    \/ ReturnEmpty
    \/ CallAgain
    \/ Typographize_SectionBreaks
    \/ Typographize_Split
    \/ Typographize_TagSegment
    \/ TextNode_smartQuotes
    \/ TextNode_normalizeEmDashes
    \/ TextNode_normalizeMultiEmDashes
    \/ TextNode_normalizeEnDashes
    \/ TextNode_normalizeEllipsis
    \/ TextNode_nbspAfterAbbreviations
    \/ TextNode_insertHairSpaces
    \/ Typographize_Join
    \/ SmartQuotes
    \/ Semanticize_wrapChapterSection
    \/ Semanticize_normalizeHeadingLevels
    \/ Semanticize_detectVerseBlocks
    \/ Semanticize_wrapContextualRomanNumerals
    \/ Semanticize_wrapAbbreviations
    \/ Semanticize_markMeasurementUnits
    \/ Foreign_tagItalicForeignPhrases
    \/ Foreign_wrapStandaloneForeignPhrases
    \/ Foreign_tagItalicNonEnglish
    \/ ModernizeSpelling

-----------------------------------------------------------------------------
(* extractChapters(epub), and the chapter records processBook makes of what  *)
(* it returns.  A chapter's content is held as its length.                   *)

\* items of a table of contents: the most the model gives an EPUB
MaxTocItems == 3

\* epub.flow of the EPUBs of the model: the manifest items in reading order, each
\* with what epub.getChapter(id) calls back with (an error, or a text of len
\* characters)
Flow ==
    << [id |-> "c1", title |-> <<>>, href |-> <<79, 69, 66, 80, 83, 47, 99, 104, 49, 46, 120, 104, 116, 109, 108>>, err |-> FALSE, len |-> 100],    \* "OEBPS/ch1.xhtml"
       [id |-> "cv", title |-> <<>>, href |-> <<99, 111, 118, 101, 114, 46, 120, 104, 116, 109, 108>>, err |-> FALSE, len |-> 500],    \* "cover.xhtml"
       [id |-> "sh", title |-> <<>>, href |-> <<115, 104, 111, 114, 116, 46, 120, 104, 116, 109, 108>>, err |-> FALSE, len |-> 99],    \* "short.xhtml"
       [id |-> "bad", title |-> <<>>, href |-> <<98, 97, 100, 46, 120, 104, 116, 109, 108>>, err |-> TRUE, len |-> 0],    \* "bad.xhtml"
       [id |-> "lic", title |-> <<>>, href |-> <<108, 105, 99, 101, 110, 115, 101, 46, 120, 104, 116, 109, 108>>, err |-> FALSE, len |-> 300] >>    \* "license.xhtml"

\* items of epub.toc; a missing title or href is the empty string
TocItems ==
    { [title |-> <<73>>, href |-> <<99, 104, 49, 46, 120, 104, 116, 109, 108>>],    \* "I", "ch1.xhtml"
      [title |-> <<67, 111, 108, 111, 112, 104, 111, 110>>, href |-> <<99, 104, 49, 46, 120, 104, 116, 109, 108>>],    \* "Colophon", "ch1.xhtml"
      [title |-> <<70, 114, 111, 110, 116>>, href |-> <<99, 111, 118, 101, 114, 46, 120, 104, 116, 109, 108>>],    \* "Front", "cover.xhtml"
      [title |-> <<32>>, href |-> <<99, 104, 49, 46, 120, 104, 116, 109, 108, 35, 115, 50>>],    \* " ", "ch1.xhtml#s2"
      [title |-> <<73, 73>>, href |-> <<103, 111, 110, 101, 46, 120, 104, 116, 109, 108>>],    \* "II", "gone.xhtml"
      [title |-> <<73, 73, 73>>, href |-> <<115, 104, 111, 114, 116, 46, 120, 104, 116, 109, 108>>],    \* "III", "short.xhtml"
      [title |-> <<73, 86>>, href |-> <<98, 97, 100, 46, 120, 104, 116, 109, 108>>],    \* "IV", "bad.xhtml"
      [title |-> <<86>>, href |-> <<>>],    \* "V"
      [title |-> <<86, 73>>, href |-> <<108, 105, 99, 101, 110, 115, 101, 46, 120, 104, 116, 109, 108>>] }    \* "VI", "license.xhtml"

skipKeywords ==
    { <<99, 111, 108, 111, 112, 104, 111, 110>>, <<105, 109, 112, 114, 105, 110, 116>>, <<108, 105, 99, 101, 110, 115, 101>>, <<99, 111, 112, 121, 114, 105, 103, 104, 116>>, <<117, 110, 99, 111, 112, 121, 114, 105, 103, 104, 116>>, <<101, 110, 100, 110, 111, 116, 101, 115>>,    \* "colophon", "imprint", "license", "copyright", "uncopyright", "endnotes"
      <<99, 111, 118, 101, 114>>, <<116, 105, 116, 108, 101, 112, 97, 103, 101>>, <<99, 111, 118, 101, 114, 32, 105, 109, 97, 103, 101>>, <<98, 111, 111, 107, 32, 99, 111, 118, 101, 114>>, <<102, 114, 111, 110, 116, 32, 99, 111, 118, 101, 114>> }    \* "cover", "titlepage", "cover image", "book cover", "front cover"

\* String.prototype.includes
includes(s, t) == \E i \in 1..(Len(s) - Len(t) + 1) : SubSeq(s, i, i + Len(t) - 1) = t

\* String.prototype.endsWith
endsWith(s, t) == Len(t) <= Len(s) /\ SubSeq(s, Len(s) - Len(t) + 1, Len(s)) = t

\* (a variant that looks at the title only)
isSkippableChapter_TitleOnly(title, href) ==
    \E kw \in skipKeywords : includes(toLowerCase(title), kw)

isSkippableChapter(title, href) ==
    \/ \E kw \in skipKeywords : includes(toLowerCase(title), kw)
    \/ includes(toLowerCase(href), <<99, 111, 118, 101, 114>>)    \* "cover"
    \/ includes(toLowerCase(href), <<116, 105, 116, 108, 101, 112, 97, 103, 101>>)    \* "titlepage"

\* `Chapter ${i + 1}` for the 0-based i, here for the 1-based index k = i + 1
DefaultTitle(k) ==
    <<67, 104, 97, 112, 116, 101, 114, 32>> \o (IF k < 10 THEN <<48 + k>> ELSE <<48 + (k \div 10), 48 + (k % 10)>>)    \* "Chapter "

\* item.title?.trim() || `Chapter ${i + 1}`
TitleOf(item, k) == IF trim(item.title) = <<>> THEN DefaultTitle(k) ELSE trim(item.title)

\* (item.href || '').split('#')[0]
BaseHref(item) ==
    IF indexOf(item.href, 35, 1) = 0 THEN item.href
    ELSE SubSeq(item.href, 1, indexOf(item.href, 35, 1) - 1)

\* flow.find(f => f.href === baseHref || f.href?.endsWith(baseHref)): the index
\* of the first such item, 0 when there is none
FlowItemOf(flow, baseHref) ==
    IF \E j \in 1..Len(flow) : endsWith(flow[j].href, baseHref)
    THEN Min({j \in 1..Len(flow) : endsWith(flow[j].href, baseHref)})
    ELSE 0

\* getChapterContent: '' on an error or an empty text; here the length
getChapterContent(f) == IF f.err THEN 0 ELSE f.len

\* let content = ''; if (flowItem) content = await getChapterContent(...)
ContentOf(flow, item) ==
    IF FlowItemOf(flow, BaseHref(item)) = 0 THEN 0
    ELSE getChapterContent(flow[FlowItemOf(flow, BaseHref(item))])

\* const items = toc.length > 0 ? toc : flow
ItemsOf(toc, flow) ==
    IF Len(toc) > 0 THEN toc
    ELSE [j \in 1..Len(flow) |-> [title |-> flow[j].title, href |-> flow[j].href]]

EInit ==
    /\ eToc \in UNION {[1..n -> TocItems] : n \in 0..MaxTocItems}
    /\ eI = 1
    /\ eChapters = <<>>
    /\ eCleaned = <<>>
    /\ eEntries = <<>>
    /\ eCreated = <<>>
    /\ ePc = "extractChapters"

EFrame == UNCHANGED <<qvars, pvars, bvars, svars, tvars, gvars, kvars, dvars>>

\* if (isSkippableChapter(title, item.href)) continue
SkipByKeyword ==
    /\ ePc = "extractChapters"
    /\ eI <= Len(ItemsOf(eToc, Flow))
    /\ isSkippableChapter(TitleOf(ItemsOf(eToc, Flow)[eI], eI), ItemsOf(eToc, Flow)[eI].href)
    /\ eI' = eI + 1
    /\ UNCHANGED <<eToc, eChapters, eCleaned, eEntries, eCreated, ePc>>
    /\ EFrame

\* if (!content || content.length < 100) continue
SkipShortContent ==
    /\ ePc = "extractChapters"
    /\ eI <= Len(ItemsOf(eToc, Flow))
    /\ ~isSkippableChapter(TitleOf(ItemsOf(eToc, Flow)[eI], eI), ItemsOf(eToc, Flow)[eI].href)
    /\ ContentOf(Flow, ItemsOf(eToc, Flow)[eI]) < 100
    /\ eI' = eI + 1
    /\ UNCHANGED <<eToc, eChapters, eCleaned, eEntries, eCreated, ePc>>
    /\ EFrame

\* (a variant that numbers a chapter by its place in the table of contents)
PushChapter_OrderIsIndex ==
    /\ ePc = "extractChapters"
    /\ eI <= Len(ItemsOf(eToc, Flow))
    /\ ~isSkippableChapter(TitleOf(ItemsOf(eToc, Flow)[eI], eI), ItemsOf(eToc, Flow)[eI].href)
    /\ ContentOf(Flow, ItemsOf(eToc, Flow)[eI]) >= 100
    /\ eChapters' = Append(eChapters,
                           [order |-> eI,
                            title |-> TitleOf(ItemsOf(eToc, Flow)[eI], eI),
                            href |-> ItemsOf(eToc, Flow)[eI].href,
                            htmlContent |-> ContentOf(Flow, ItemsOf(eToc, Flow)[eI])])
    /\ eI' = eI + 1
    /\ UNCHANGED <<eToc, eCleaned, eEntries, eCreated, ePc>>
    /\ EFrame

\* chapters.push({ order: chapters.length + 1, title, href, htmlContent, ... })
PushChapter ==
    /\ ePc = "extractChapters"
    /\ eI <= Len(ItemsOf(eToc, Flow))
    /\ ~isSkippableChapter(TitleOf(ItemsOf(eToc, Flow)[eI], eI), ItemsOf(eToc, Flow)[eI].href)
    /\ ContentOf(Flow, ItemsOf(eToc, Flow)[eI]) >= 100
    /\ eChapters' = Append(eChapters,
                           [order |-> Len(eChapters) + 1,
                            title |-> TitleOf(ItemsOf(eToc, Flow)[eI], eI),
                            href |-> ItemsOf(eToc, Flow)[eI].href,
                            htmlContent |-> ContentOf(Flow, ItemsOf(eToc, Flow)[eI])])
    /\ eI' = eI + 1
    /\ UNCHANGED <<eToc, eCleaned, eEntries, eCreated, ePc>>
    /\ EFrame

\* return chapters; processBook: const rawChapters = await extractChapters(epub)
ReturnChapters ==
    /\ ePc = "extractChapters"
    /\ eI > Len(ItemsOf(eToc, Flow))
    /\ ePc' = "cleaning"
    /\ UNCHANGED <<eToc, eI, eChapters, eCleaned, eEntries, eCreated>>
    /\ EFrame

\* for (const ch of rawChapters):  cleanedChapters.push({ ...ch, cleanedHtml, ... })
CleanChapter ==
    /\ ePc = "cleaning"
    /\ Len(eCleaned) < Len(eChapters)
    /\ eCleaned' = Append(eCleaned, eChapters[Len(eCleaned) + 1])
    /\ UNCHANGED <<eToc, eI, eChapters, eEntries, eCreated, ePc>>
    /\ EFrame

\* the loop is over; the steps between it and the chapter uploads
CleanedAll ==
    /\ ePc = "cleaning"
    /\ Len(eCleaned) = Len(eChapters)
    /\ ePc' = "uploading"
    /\ UNCHANGED <<eToc, eI, eChapters, eCleaned, eEntries, eCreated>>
    /\ EFrame

\* for (const ch of cleanedChapters):  chapterEntries.push({ orderNum: ch.order, ... })
UploadChapterEntry ==
    /\ ePc = "uploading"
    /\ Len(eEntries) < Len(eCleaned)
    /\ eEntries' = Append(eEntries,
                          [orderNum |-> eCleaned[Len(eEntries) + 1].order,
                           title |-> eCleaned[Len(eEntries) + 1].title])
    /\ UNCHANGED <<eToc, eI, eChapters, eCleaned, eCreated, ePc>>
    /\ EFrame

\* uploadChapter rejects: processBook throws, no chapter record is made
UploadChapterFails ==
    /\ ePc = "uploading"
    /\ Len(eEntries) < Len(eCleaned)
    /\ ePc' = "failed"
    /\ UNCHANGED <<eToc, eI, eChapters, eCleaned, eEntries, eCreated>>
    /\ EFrame

\* workerClient.createChapters(bookId, chapterEntries.map(...)); the route
\* answers 400 to an empty list and inserts the rows of any other
CreateChapterRecords ==
    /\ ePc = "uploading"
    /\ Len(eEntries) = Len(eCleaned)
    /\ eCreated' = IF eEntries = <<>> THEN <<>>
                   ELSE [k \in 1..Len(eEntries) |->
                            [orderNum |-> eEntries[k].orderNum, title |-> eEntries[k].title]]
    /\ ePc' = IF eEntries = <<>> THEN "failed" ELSE "done"
    /\ UNCHANGED <<eToc, eI, eChapters, eCleaned, eEntries>>
    /\ EFrame

\* what processBook hands to checkBookQuality: cleanedChapters.map(ch => ...)
ScoredChapters ==
    IF ePc \in {"extractChapters", "cleaning"} THEN <<>>
    ELSE [k \in 1..Len(eCleaned) |-> [title |-> eCleaned[k].title, href |-> eCleaned[k].href]]

ENext ==
    \/ SkipByKeyword
    \/ SkipShortContent
    \/ PushChapter
    \/ ReturnChapters
    \/ CleanChapter
    \/ CleanedAll
    \/ UploadChapterEntry
    \/ UploadChapterFails
    \/ CreateChapterRecords

-----------------------------------------------------------------------------
(* image-processor.ts *)

\* /<img\b([^>]*?)>/gi
ImgTagRe ==
    Cat(<<Chars({60}), Chars({73, 105}), Chars({77, 109}), Chars({71, 103}),
      WordB, Group(1, Lazy(NotChars({62}), 0, Inf)), Chars({62})>>)

\* /src\s*=\s*["']([^"']*?)["']/i
SrcAttrRe ==
    Cat(<<Chars({83, 115}), Chars({82, 114}), Chars({67, 99}),
      Rep(Chars(WhiteSpace), 0, Inf), Chars({61}), Rep(Chars(WhiteSpace), 0,
      Inf), Chars({34, 39}), Group(1, Lazy(NotChars({34, 39}), 0, Inf)),
      Chars({34, 39})>>)

\* /alt\s*=\s*["'][^"']+["']/i
HasAltRe ==
    Cat(<<Chars({65, 97}), Chars({76, 108}), Chars({84, 116}),
      Rep(Chars(WhiteSpace), 0, Inf), Chars({61}), Rep(Chars(WhiteSpace), 0,
      Inf), Chars({34, 39}), Rep(NotChars({34, 39}), 1, Inf), Chars({34,
      39})>>)

\* /alt\s*=\s*["']\s*["']/i
EmptyAltRe ==
    Cat(<<Chars({65, 97}), Chars({76, 108}), Chars({84, 116}),
      Rep(Chars(WhiteSpace), 0, Inf), Chars({61}), Rep(Chars(WhiteSpace), 0,
      Inf), Chars({34, 39}), Rep(Chars(WhiteSpace), 0, Inf), Chars({34,
      39})>>)

\* /alt\s*=/i
AltAttrRe ==
    Cat(<<Chars({65, 97}), Chars({76, 108}), Chars({84, 116}),
      Rep(Chars(WhiteSpace), 0, Inf), Chars({61})>>)

\* one replacement of escapeAttr: & first, so that the entities written for
\* the other three characters are not escaped again
EscapeChar(c) ==
    CASE c = 38 -> <<38, 97, 109, 112, 59>>    \* "&amp;"
      [] c = 34 -> <<38, 113, 117, 111, 116, 59>>    \* "&quot;"
      [] c = 60 -> <<38, 108, 116, 59>>    \* "&lt;"
      [] c = 62 -> <<38, 103, 116, 59>>    \* "&gt;"
      [] OTHER -> <<c>>

escapeAttr(text) == Flatten([i \in 1..Len(text) |-> EscapeChar(text[i])])

\* String.prototype.trimEnd
trimEnd(s) ==
    IF \A i \in 1..Len(s) : IsSpace(s[i]) THEN <<>>
    ELSE SubSeq(s, 1, CHOOSE x \in 1..Len(s) :
                         ~IsSpace(s[x]) /\ \A y \in (x + 1)..Len(s) : IsSpace(s[y]))

\* s.replace(re, by) for a pattern without the g flag and a replacement that
\* holds no $: the first match is replaced
ReplaceFirst(s, re, by) ==
    IF AllMatches(re, s, 1) = <<>> THEN s
    ELSE SubSeq(s, 1, AllMatches(re, s, 1)[1].from - 1) \o by
            \o SubSeq(s, AllMatches(re, s, 1)[1].to, Len(s))

\* a Map is the sequence of its entries in insertion order
MapHas(map, key) == \E j \in 1..Len(map) : map[j].key = key

MapGet(map, key) == map[CHOOSE j \in 1..Len(map) : map[j].key = key].value

\* Map.prototype.set: a key that is present keeps its place
MapSet(map, key, value) ==
    IF MapHas(map, key)
    THEN [j \in 1..Len(map) |-> IF map[j].key = key
                                THEN [key |-> key, value |-> value] ELSE map[j]]
    ELSE Append(map, [key |-> key, value |-> value])

\* buildImageMap, for hrefs without a percent escape (decodeURIComponent(href)
\* is then href and the decoded variants are not added)
RECURSIVE buildImageMap(_)
buildImageMap(images) ==
    IF images = <<>> THEN <<>>
    ELSE MapSet(MapSet(buildImageMap(SubSeq(images, 1, Len(images) - 1)),
                       <<47, 105, 109, 97, 103, 101, 115, 47>> \o images[Len(images)].href,    \* "/images/"
                       images[Len(images)].r2Url),
                images[Len(images)].href, images[Len(images)].r2Url)

\* lines 81-95: the exact entry, else the first entry whose key the src contains
NewSrc(imageMap, originalSrc) ==
    IF MapHas(imageMap, originalSrc) THEN MapGet(imageMap, originalSrc)
    ELSE IF \E j \in 1..Len(imageMap) : includes(originalSrc, imageMap[j].key)
    THEN imageMap[Min({j \in 1..Len(imageMap) :
                          includes(originalSrc, imageMap[j].key)})].value
    ELSE originalSrc

\* const srcMatch = attrs.match(/src.../i)
HasSrc(attrs) == AllMatches(SrcAttrRe, attrs, 1) # <<>>

\* lines 98-101
NewAttrs(attrs, imageMap) ==
    ReplaceFirst(attrs, SrcAttrRe,
                 <<115, 114, 99, 61, 34>> \o NewSrc(imageMap, Cap(attrs, AllMatches(SrcAttrRe, attrs, 1)[1], 1))    \* "src=""
                     \o <<34>>)

\* lines 107-113: the caption is written over an empty alt, or appended when
\* the attributes hold no alt= at all
WithCaption(newAttrs, caption) ==
    IF Test(EmptyAltRe, newAttrs)
    THEN ReplaceFirst(newAttrs, EmptyAltRe, <<97, 108, 116, 61, 34>> \o escapeAttr(caption) \o <<34>>)    \* "alt=""
    ELSE IF ~Test(AltAttrRe, newAttrs)
    THEN trimEnd(newAttrs) \o <<32, 97, 108, 116, 61, 34>> \o escapeAttr(caption) \o <<34>>    \* " alt=""
    ELSE newAttrs

\* line 105: !hasAlt (captionIdx < captions.length is tested by the caller)
TakesCaption(attrs, imageMap) ==
    HasSrc(attrs) /\ ~Test(HasAltRe, NewAttrs(attrs, imageMap))

\* the replace callback for one <img>, with captionIdx as it is on entry
ImgCallback(match, attrs, imageMap, captions, captionIdx) ==
    IF ~HasSrc(attrs) THEN match
    ELSE <<60, 105, 109, 103>>    \* "<img"
           \o (IF TakesCaption(attrs, imageMap) /\ captionIdx < Len(captions)
               THEN WithCaption(NewAttrs(attrs, imageMap), captions[captionIdx + 1])
               ELSE NewAttrs(attrs, imageMap))
           \o <<GT>>

\* captionIdx after the callback has run for the first k matches:
\* captions[captionIdx++] is evaluated whenever line 105 holds
RECURSIVE CaptionIdxAfter(_, _, _, _, _)
CaptionIdxAfter(html, ms, imageMap, captions, k) ==
    IF k = 0 THEN 0
    ELSE IF /\ TakesCaption(Cap(html, ms[k], 1), imageMap)
            /\ CaptionIdxAfter(html, ms, imageMap, captions, k - 1) < Len(captions)
    THEN CaptionIdxAfter(html, ms, imageMap, captions, k - 1) + 1
    ELSE CaptionIdxAfter(html, ms, imageMap, captions, k - 1)

RewriteMatches(html, ms, imageMap, captions) ==
    Flatten([k \in 1..(2 * Len(ms) + 1) |->
                IF k % 2 = 1 THEN Gap(html, ms, k \div 2)
                ELSE ImgCallback(Cap(html, ms[k \div 2], 0), Cap(html, ms[k \div 2], 1),
                                 imageMap, captions,
                                 CaptionIdxAfter(html, ms, imageMap, captions,
                                                 k \div 2 - 1))])

rewriteImagePaths(html, imageMap, captions) ==
    RewriteMatches(html, AllMatches(ImgTagRe, html, 1), imageMap, captions)

\* getImageFilename: path.posix.basename(href), every character outside
\* [a-zA-Z0-9.\-_] replaced by '_', 'image.bin' when nothing is left
IsFilenameChar(c) ==
    \/ c \in 48..57
    \/ c \in 65..90
    \/ c \in 97..122
    \/ c \in {45, 46, 95}

\* path.posix.basename for a path that does not end with '/'
basename(p) ==
    IF \E i \in 1..Len(p) : p[i] = 47
    THEN SubSeq(p, (CHOOSE i \in 1..Len(p) :
                       p[i] = 47 /\ \A j \in (i + 1)..Len(p) : p[j] # 47) + 1, Len(p))
    ELSE p

getImageFilename(href) ==
    IF basename(href) = <<>> THEN <<105, 109, 97, 103, 101, 46, 98, 105, 110>>    \* "image.bin"
    ELSE [i \in 1..Len(basename(href)) |->
             IF IsFilenameChar(basename(href)[i]) THEN basename(href)[i] ELSE 95]


\* pieces of chapter HTML that rewriteImagePaths is called on
ImageTokens ==
    \* <img src="a.png">
    { <<60, 105, 109, 103, 32, 115, 114, 99, 61, 34, 97, 46, 112, 110, 103, 34, 62>>,
    \* <img src="b.png" alt="">
      <<60, 105, 109, 103, 32, 115, 114, 99, 61, 34, 98, 46, 112, 110, 103, 34, 32, 97, 108, 116, 61, 34, 34, 62>>,
    \* <img src="c.png" alt="Map">
      <<60, 105, 109, 103, 32, 115, 114, 99, 61, 34, 99, 46, 112, 110, 103, 34, 32, 97, 108, 116, 61, 34, 77, 97, 112, 34, 62>>,
    \* <img alt="">
      <<60, 105, 109, 103, 32, 97, 108, 116, 61, 34, 34, 62>>,
    \* <img src="d.png" alt=x>
      <<60, 105, 109, 103, 32, 115, 114, 99, 61, 34, 100, 46, 112, 110, 103, 34, 32, 97, 108, 116, 61, 120, 62>>,
    \* <p>t</p>
      <<60, 112, 62, 116, 60, 47, 112, 62>> }


\* the captions of a chapter: "One" and "A&B", in extraction order
CaptionLists == {<<>>, <<<<79, 110, 101>>>>, <<<<79, 110, 101>>, <<65, 38, 66>>>>}    \* "One", "One", "A&B"

\* the image map of a book whose manifest holds a.png
ImageMapOfModel == buildImageMap(<<[href |-> <<97, 46, 112, 110, 103>>, r2Url |-> <<114, 50, 47, 97, 46, 112, 110, 103>>]>>)    \* "a.png", "r2/a.png"


\* rewriteImagePaths(html, imageMap, captions) called on its own
RewriteImagePaths ==
    Step("rewriteImagePaths", "rewriteImagePaths",
         rewriteImagePaths(tCur, ImageMapOfModel, tSegs), "return")

ImagesNext == RewriteImagePaths

-----------------------------------------------------------------------------
(* process-book.ts: processBook from the cleaning loop (line 133) to the     *)
(* last status update (line 282), with what is uploaded and recorded.  The   *)
(* HTML of a chapter is given by the functions that were applied to it.      *)

MaxPublishChapters == 2

MaxManifestImages == 2

\* what extractChapters returned, each chapter with what the text pipeline
\* will find in it: the word count of the cleaned text, the formats of its
\* data: URIs, the number of its [Illustration: ...] markers
RawChapterPool ==
    { [title |-> T_Chapter1, words |-> 3000, base64 |-> <<>>, captions |-> 0],
      [title |-> T_Chapter2, words |-> 3000, base64 |-> <<<<112, 110, 103>>>>, captions |-> 1],    \* "png"
      [title |-> T_Chapter3, words |-> 40, base64 |-> <<<<112, 110, 103>>>>, captions |-> 0],    \* "png"
      [title |-> T_ChapterIV, words |-> 50, base64 |-> <<<<106, 112, 101, 103>>>>, captions |-> 0] }    \* "jpeg"

\* the hrefs of the image items of the manifest
ManifestHrefs ==
    { <<105, 109, 97, 103, 101, 115, 47, 102, 105, 103, 46, 106, 112, 103>>, <<112, 108, 97, 116, 101, 115, 47, 102, 105, 103, 46, 106, 112, 103>>, <<105, 109, 97, 103, 101, 115, 47, 109, 97, 112, 32, 49, 46, 112, 110, 103>> }    \* "images/fig.jpg", "plates/fig.jpg", "images/map 1.png"

\* an entry of the log: the call, the object key (puts only), what was sent
\* (<<kind, chapter or image index, index inside the chapter>>), the HTML sent
\* (chapter puts only), whether the call succeeded
Sent(ev, key, what, body, ok) ==
    [ev |-> ev, key |-> key, what |-> what, body |-> body, ok |-> ok]

\* r2-client: the keys of uploadEpub, uploadCover, uploadImage, uploadChapter
\* for the book of the run, Gutenberg id 84
EpubKey == <<98, 111, 111, 107, 115, 47, 56, 52, 47, 111, 114, 105, 103, 105, 110, 97, 108, 46, 101, 112, 117, 98>>    \* "books/84/original.epub"

CoverKey == <<98, 111, 111, 107, 115, 47, 56, 52, 47, 99, 111, 118, 101, 114, 46, 106, 112, 103>>    \* "books/84/cover.jpg"

ImageKey(filename) == <<98, 111, 111, 107, 115, 47, 56, 52, 47, 105, 109, 97, 103, 101, 115, 47>> \o filename    \* "books/84/images/"

ChapterKey(chapterId) == <<98, 111, 111, 107, 115, 47, 56, 52, 47, 99, 104, 97, 112, 116, 101, 114, 115, 47>> \o chapterId \o <<46, 104, 116, 109, 108>>    \* "books/84/chapters/", ".html"

\* uuid(): the k-th identifier of the run
uuid(k) == <<117, 48 + k>>

\* extractBase64Images: idx starts at 0 in every call; the image of the j-th
\* data: URI (1-based) of a chapter
Base64Image(format, j) ==
    [index |-> j - 1,
     filename |-> <<105, 110, 108, 105, 110, 101, 45>> \o <<48 + (j - 1), 46>>    \* "inline-"
                     \o (IF format = <<106, 112, 101, 103>> THEN <<106, 112, 103>> ELSE format)]    \* "jpeg", "jpg"

extractBase64Images(formats) ==
    [j \in 1..Len(formats) |-> Base64Image(formats[j], j)]

FirstPassStages ==
    <<"extractIllustrationCaptions", "extractBase64Images", "cleanChapterHtml",
      "typographize", "modernizeSpelling", "semanticize", "tagForeignPhrases">>

\* lines 208-224 for one chapter: what the second loop applies to its HTML
\* (base64UrlMap.size > 0 when the chapter had a data: URI, imageMap.size > 0
\* when the manifest has an image)
SecondPassStages(ch, images) ==
    (IF Len(ch.base64Images) > 0 THEN <<"replaceBase64Placeholders">> ELSE <<>>)
    \o (IF Len(images) > 0 \/ ch.captions > 0 THEN <<"rewriteImagePaths">> ELSE <<>>)

\* the entry with the flag cleared for a chapter of at most 50 words
ChapterEntry_FlagAt50(ch, k) ==
    [id |-> uuid(k), orderNum |-> ch.order, title |-> ch.title,
     contentUrl |-> ChapterKey(uuid(k)), wordCount |-> ch.cleanedWordCount,
     qualityOk |-> IF ch.cleanedWordCount > 50 THEN 1 ELSE 0]

\* lines 231-238: the entry pushed for the k-th chapter
ChapterEntry(ch, k) ==
    [id |-> uuid(k), orderNum |-> ch.order, title |-> ch.title,
     contentUrl |-> ChapterKey(uuid(k)), wordCount |-> ch.cleanedWordCount,
     qualityOk |-> IF ch.cleanedWordCount >= 50 THEN 1 ELSE 0]

\* chapterEntries once the upload loop has visited the first n chapters
chapterEntries(n) == [k \in 1..n |-> ChapterEntry(kCleaned[k], k)]

\* cleanedChapters.reduce((sum, ch) => sum + ch.cleanedWordCount, 0)
RECURSIVE totalWordCount(_)
totalWordCount(chs) ==
    IF chs = <<>> THEN 0
    ELSE totalWordCount(SubSeq(chs, 1, Len(chs) - 1)) + chs[Len(chs)].cleanedWordCount

\* the arguments of checkBookQuality, lines 160-176
QualityBook == [wordCount |-> totalWordCount(kCleaned), hasCover |-> kEpub.cover]

QualityChapters ==
    [k \in 1..Len(kCleaned) |->
        [title |-> kCleaned[k].title, wordCount |-> kCleaned[k].cleanedWordCount,
         htmlContent |-> H_Clean]]

KInit ==
    /\ \E c \in BOOLEAN, n \in 0..MaxPublishChapters, m \in 0..MaxManifestImages :
         \E chs \in [1..n -> RawChapterPool], imgs \in [1..m -> ManifestHrefs] :
            /\ \A i, j \in 1..m : i # j => imgs[i] # imgs[j]
            /\ kEpub = [cover |-> c, images |-> imgs,
                        chapters |-> [k \in 1..n |->
                                         [order |-> k, title |-> chs[k].title,
                                          words |-> chs[k].words,
                                          base64 |-> chs[k].base64,
                                          captions |-> chs[k].captions]]]
    /\ kCleaned = <<>>
    /\ kQuality = null
    /\ kI = 1
    /\ kJ = 1
    /\ kLog = <<>>
    /\ kDb = [book |-> <<>>, chapters |-> <<>>]
    /\ kPc = "cleaning"

KFrame == UNCHANGED <<qvars, pvars, bvars, svars, tvars, evars, gvars, dvars>>

\* one call of the uploader or of the worker client: it is logged; when it
\* rejects, control goes to the catch block
Await(ev, key, what, body, ok, next) ==
    /\ kLog' = Append(kLog, Sent(ev, key, what, body, ok))
    /\ kPc' = IF ok THEN next ELSE "catch"

\* the cleaning loop with the spelling pass in front of the typography pass
FirstPass_SpellingBeforeTypography ==
    /\ kPc = "cleaning"
    /\ kI <= Len(kEpub.chapters)
    /\ kCleaned' = Append(kCleaned,
          [order |-> kEpub.chapters[kI].order,
           title |-> kEpub.chapters[kI].title,
           stages |-> <<"extractIllustrationCaptions", "extractBase64Images",
                        "cleanChapterHtml", "modernizeSpelling", "typographize",
                        "semanticize", "tagForeignPhrases">>,
           cleanedWordCount |-> kEpub.chapters[kI].words,
           captions |-> kEpub.chapters[kI].captions,
           base64Images |-> extractBase64Images(kEpub.chapters[kI].base64)])
    /\ kI' = kI + 1
    /\ UNCHANGED <<kEpub, kQuality, kJ, kLog, kDb, kPc>>
    /\ KFrame

\* lines 134-152: one pass of the cleaning loop
FirstPass ==
    /\ kPc = "cleaning"
    /\ kI <= Len(kEpub.chapters)
    /\ kCleaned' = Append(kCleaned,
          [order |-> kEpub.chapters[kI].order,
           title |-> kEpub.chapters[kI].title,
           stages |-> FirstPassStages,
           cleanedWordCount |-> kEpub.chapters[kI].words,
           captions |-> kEpub.chapters[kI].captions,
           base64Images |-> extractBase64Images(kEpub.chapters[kI].base64)])
    /\ kI' = kI + 1
    /\ UNCHANGED <<kEpub, kQuality, kJ, kLog, kDb, kPc>>
    /\ KFrame

\* lines 156-176: the totals and the quality check
CheckQuality ==
    /\ kPc = "cleaning"
    /\ kI > Len(kEpub.chapters)
    /\ kQuality' = checkBookQuality(QualityBook, QualityChapters)
    /\ kPc' = "uploadEpub"
    /\ UNCHANGED <<kEpub, kCleaned, kI, kJ, kLog, kDb>>
    /\ KFrame

\* line 182
PutEpub ==
    /\ kPc = "uploadEpub"
    /\ \E ok \in BOOLEAN :
          Await("put", EpubKey, <<"epub", 0, 0>>, <<>>, ok,
                IF kEpub.cover THEN "uploadCover" ELSE "uploadImages")
    /\ kI' = 1
    /\ UNCHANGED <<kEpub, kCleaned, kQuality, kJ, kDb>>
    /\ KFrame

\* the cover upload with its rejection ignored
PutCover_FailureIgnored ==
    /\ kPc = "uploadCover"
    /\ \E ok \in BOOLEAN :
          /\ kLog' = Append(kLog, Sent("put", CoverKey, <<"cover", 0, 0>>, <<>>, ok))
          /\ kPc' = "uploadImages"
    /\ UNCHANGED <<kEpub, kCleaned, kQuality, kI, kJ, kDb>>
    /\ KFrame

\* lines 186-189
PutCover ==
    /\ kPc = "uploadCover"
    /\ \E ok \in BOOLEAN :
          Await("put", CoverKey, <<"cover", 0, 0>>, <<>>, ok, "uploadImages")
    /\ UNCHANGED <<kEpub, kCleaned, kQuality, kI, kJ, kDb>>
    /\ KFrame

\* lines 193-197: one pass of the loop over epubImages
PutManifestImage ==
    /\ kPc = "uploadImages"
    /\ kI <= Len(kEpub.images)
    /\ \E ok \in BOOLEAN :
          Await("put", ImageKey(getImageFilename(kEpub.images[kI])),
                <<"manifest", kI, 0>>, <<>>, ok, "uploadImages")
    /\ kI' = kI + 1
    /\ UNCHANGED <<kEpub, kCleaned, kQuality, kJ, kDb>>
    /\ KFrame

\* line 198: buildImageMap; the second loop over the chapters begins
BuildMap ==
    /\ kPc = "uploadImages"
    /\ kI > Len(kEpub.images)
    /\ kPc' = "secondPass"
    /\ kI' = 1
    /\ kJ' = 1
    /\ UNCHANGED <<kEpub, kCleaned, kQuality, kLog, kDb>>
    /\ KFrame

\* lines 210-213: one base64 image of the chapter
PutBase64Image ==
    /\ kPc = "secondPass"
    /\ kI <= Len(kCleaned)
    /\ kJ <= Len(kCleaned[kI].base64Images)
    /\ \E ok \in BOOLEAN :
          Await("put", ImageKey(kCleaned[kI].base64Images[kJ].filename),
                <<"base64", kI, kCleaned[kI].base64Images[kJ].index>>, <<>>, ok,
                "secondPass")
    /\ kJ' = kJ + 1
    /\ UNCHANGED <<kEpub, kCleaned, kQuality, kI, kDb>>
    /\ KFrame

\* lines 215-224: placeholders and image paths of the chapter
SecondPass ==
    /\ kPc = "secondPass"
    /\ kI <= Len(kCleaned)
    /\ kJ > Len(kCleaned[kI].base64Images)
    /\ kCleaned' = [kCleaned EXCEPT ![kI].stages =
                       @ \o SecondPassStages(kCleaned[kI], kEpub.images)]
    /\ kI' = kI + 1
    /\ kJ' = 1
    /\ UNCHANGED <<kEpub, kQuality, kLog, kDb, kPc>>
    /\ KFrame

\* the second loop is over; line 228
SecondPassDone ==
    /\ kPc = "secondPass"
    /\ kI > Len(kCleaned)
    /\ kPc' = "uploadChapters"
    /\ kI' = 1
    /\ UNCHANGED <<kEpub, kCleaned, kQuality, kJ, kLog, kDb>>
    /\ KFrame

\* lines 229-239: one pass of the chapter upload loop
PutChapter ==
    /\ kPc = "uploadChapters"
    /\ kI <= Len(kCleaned)
    /\ \E ok \in BOOLEAN :
          Await("put", ChapterKey(uuid(kI)), <<"chapter", kI, 0>>,
                kCleaned[kI].stages, ok, "uploadChapters")
    /\ kI' = kI + 1
    /\ UNCHANGED <<kEpub, kCleaned, kQuality, kJ, kDb>>
    /\ KFrame

\* lines 247-263 and POST /internal/books: the row is the body that was sent
PostBook ==
    /\ kPc = "uploadChapters"
    /\ kI > Len(kCleaned)
    /\ \E ok \in BOOLEAN :
          /\ Await("createBook", <<>>, <<"book", 0, 0>>, <<>>, ok, "createChapters")
          /\ kDb' = IF ok
                    THEN [kDb EXCEPT !.book =
                            <<[status |-> IF kQuality.pass THEN "ready" ELSE "pending",
                               qualityScore |-> kQuality.score,
                               qualityIssues |-> kQuality.issues,
                               chapterCount |-> Len(chapterEntries(Len(kCleaned))),
                               wordCount |-> totalWordCount(kCleaned)]>>]
                    ELSE kDb
    /\ UNCHANGED <<kEpub, kCleaned, kQuality, kI, kJ>>
    /\ KFrame

\* POST /internal/books/:id/chapters: 400 for an empty chapters array, else
\* the rows are inserted and the answer is 201; 500 when the insert fails
ChaptersRouteStatus(chapters, ok) ==
    IF Len(chapters) = 0 THEN 400 ELSE IF ok THEN 201 ELSE 500

\* lines 268-278: the HTTP client throws on an answer that is not 2xx; the
\* status of the answer is logged
PostChapters ==
    /\ kPc = "createChapters"
    /\ \E ok \in BOOLEAN :
          /\ Await("createChapters", <<>>,
                   <<"chapters", Len(kCleaned),
                     ChaptersRouteStatus(chapterEntries(Len(kCleaned)), ok)>>, <<>>,
                   ChaptersRouteStatus(chapterEntries(Len(kCleaned)), ok) = 201,
                   "reportDone")
          /\ kDb' = IF ChaptersRouteStatus(chapterEntries(Len(kCleaned)), ok) = 201
                    THEN [kDb EXCEPT !.chapters = chapterEntries(Len(kCleaned))]
                    ELSE kDb
    /\ UNCHANGED <<kEpub, kCleaned, kQuality, kI, kJ>>
    /\ KFrame

\* line 282: updateJobSafe(jobId, { status: 'done' }), then the return
MarkDone ==
    /\ kPc = "reportDone"
    /\ \E ok \in BOOLEAN :
          /\ kLog' = Append(kLog, Sent("updateJob", <<>>, <<"done", 0, 0>>, <<>>, ok))
          /\ kPc' = "returned"
    /\ UNCHANGED <<kEpub, kCleaned, kQuality, kI, kJ, kDb>>
    /\ KFrame

\* lines 293-304: updateJobSafe(jobId, { status: 'failed', ... }), then the throw
MarkFailed ==
    /\ kPc = "catch"
    /\ \E ok \in BOOLEAN :
          /\ kLog' = Append(kLog, Sent("updateJob", <<>>, <<"failed", 0, 0>>, <<>>, ok))
          /\ kPc' = "threw"
    /\ UNCHANGED <<kEpub, kCleaned, kQuality, kI, kJ, kDb>>
    /\ KFrame

KNext ==
    \/ FirstPass
    \/ CheckQuality
    \/ PutEpub
    \/ PutCover
    \/ PutManifestImage
    \/ BuildMap
    \/ PutBase64Image
    \/ SecondPass
    \/ SecondPassDone
    \/ PutChapter
    \/ PostBook
    \/ PostChapters
    \/ MarkDone
    \/ MarkFailed

-----------------------------------------------------------------------------
(* pg-discover.ts: main(), runs of the discovery script, with processing     *)
(* runs between them.                                                        *)

MaxDiscoverLimit == 2

MaxDiscoverRuns == 2

\* --min-downloads, the default
MIN_DOWNLOADS == 100

\* the Gutendex catalogue by page, most downloaded first; hasEpub is whether
\* getEpubUrl(book) is not null
GutendexPages ==
    << << [id |-> 1, hasEpub |-> TRUE, download_count |-> 900] >>,
       << [id |-> 2, hasEpub |-> FALSE, download_count |-> 800],
          [id |-> 3, hasEpub |-> TRUE, download_count |-> 500] >>,
       << [id |-> 4, hasEpub |-> TRUE, download_count |-> 300] >>,
       << [id |-> 5, hasEpub |-> TRUE, download_count |-> 50] >> >>

\* response.results of fetchPage(page)
ResultsOf(page) == IF page <= Len(GutendexPages) THEN GutendexPages[page] ELSE <<>>

\* results.filter(keep), for the two filters of the loop
RECURSIVE Candidates(_)
Candidates(results) ==
    IF results = <<>> THEN <<>>
    ELSE Candidates(SubSeq(results, 1, Len(results) - 1))
            \o (IF results[Len(results)].hasEpub
                   /\ results[Len(results)].download_count >= MIN_DOWNLOADS
                THEN <<results[Len(results)]>> ELSE <<>>)

RECURSIVE NotIn(_, _)
NotIn(candidates, existingSet) ==
    IF candidates = <<>> THEN <<>>
    ELSE NotIn(SubSeq(candidates, 1, Len(candidates) - 1), existingSet)
            \o (IF candidates[Len(candidates)].id \in existingSet
                THEN <<>> ELSE <<candidates[Len(candidates)]>>)

\* GET /internal/books/exists: the ids among those asked for that have a row
\* in books; process_jobs is not read
checkExistingBooks(gutenbergIds) == gutenbergIds \cap dBooks

DInit ==
    /\ dBooks \in SUBSET {1, 3, 4}
    /\ dJobs = <<>>
    /\ dLimit \in 1..MaxDiscoverLimit
    /\ dDryRun \in BOOLEAN
    /\ dRun = 1
    /\ dPage = 1
    /\ dDiscovered = 0
    /\ dConsecutive = 0
    /\ dNewBooks = <<>>
    /\ dCreated = <<>>
    /\ dPc = "while"

DFrame == UNCHANGED <<qvars, pvars, bvars, svars, tvars, evars, gvars, kvars>>

\* while (discovered < DISCOVER_LIMIT) is false
LimitReached ==
    /\ dPc = "while"
    /\ dDiscovered >= dLimit
    /\ dPc' = "exited"
    /\ UNCHANGED <<dBooks, dJobs, dLimit, dDryRun, dRun, dPage, dDiscovered,
                   dConsecutive, dNewBooks, dCreated>>
    /\ DFrame

\* lines 30-49: the page is fetched; a fetch error, an empty page and a page
\* without candidate end the loop
FetchPage ==
    /\ dPc = "while"
    /\ dDiscovered < dLimit
    /\ \E ok \in BOOLEAN :
          dPc' = IF ok /\ Candidates(ResultsOf(dPage)) # <<>> THEN "check" ELSE "exited"
    /\ UNCHANGED <<dBooks, dJobs, dLimit, dDryRun, dRun, dPage, dDiscovered,
                   dConsecutive, dNewBooks, dCreated>>
    /\ DFrame

\* lines 52-74: the candidates the store does not know; a failed check and a
\* third page in a row without new book end the loop
CheckExisting ==
    /\ dPc = "check"
    /\ \E ok \in BOOLEAN :
          IF ~ok
          THEN /\ dPc' = "exited"
               /\ UNCHANGED <<dConsecutive, dNewBooks>>
          ELSE /\ dNewBooks' =
                    NotIn(Candidates(ResultsOf(dPage)),
                          checkExistingBooks({Candidates(ResultsOf(dPage))[j].id :
                                                 j \in 1..Len(Candidates(ResultsOf(dPage)))}))
               /\ dConsecutive' = IF dNewBooks' = <<>> THEN dConsecutive + 1 ELSE 0
               /\ dPc' = IF dNewBooks' = <<>> /\ dConsecutive + 1 >= 3
                         THEN "exited" ELSE "for"
    /\ UNCHANGED <<dBooks, dJobs, dLimit, dDryRun, dRun, dPage, dDiscovered, dCreated>>
    /\ DFrame

\* lines 77-92: one pass of the for loop; createJob inserts a queued row for
\* the id it is given (POST /admin/process/:gutenbergId)
CreateJob ==
    /\ dPc = "for"
    /\ dNewBooks # <<>>
    /\ IF dDiscovered >= dLimit
       THEN /\ dNewBooks' = <<>>
            /\ UNCHANGED <<dJobs, dCreated, dDiscovered>>
       ELSE /\ dNewBooks' = Tail(dNewBooks)
            /\ IF dDryRun
               THEN /\ dDiscovered' = dDiscovered + 1
                    /\ UNCHANGED <<dJobs, dCreated>>
               ELSE \E ok \in BOOLEAN :
                       /\ dJobs' = IF ok THEN Append(dJobs, Head(dNewBooks).id) ELSE dJobs
                       /\ dCreated' = IF ok THEN Append(dCreated, Head(dNewBooks).id)
                                      ELSE dCreated
                       /\ dDiscovered' = IF ok THEN dDiscovered + 1 ELSE dDiscovered
    /\ UNCHANGED <<dBooks, dLimit, dDryRun, dRun, dPage, dConsecutive, dPc>>
    /\ DFrame

\* lines 94-98: the next page, after the delay
NextPage ==
    /\ dPc = "for"
    /\ dNewBooks = <<>>
    /\ dPage' = dPage + 1
    /\ dPc' = "while"
    /\ UNCHANGED <<dBooks, dJobs, dLimit, dDryRun, dRun, dDiscovered, dConsecutive,
                   dNewBooks, dCreated>>
    /\ DFrame

\* between two runs: a processing run creates the book record of a queued job
ProcessJob ==
    /\ dPc = "exited"
    /\ \E j \in 1..Len(dJobs) :
          /\ dJobs[j] \notin dBooks
          /\ dBooks' = dBooks \cup {dJobs[j]}
    /\ UNCHANGED <<dJobs, dLimit, dDryRun, dRun, dPage, dDiscovered, dConsecutive,
                   dNewBooks, dCreated, dPc>>
    /\ DFrame

\* the script is started again
RunAgain ==
    /\ dPc = "exited"
    /\ dRun < MaxDiscoverRuns
    /\ dRun' = dRun + 1
    /\ dPage' = 1
    /\ dDiscovered' = 0
    /\ dConsecutive' = 0
    /\ dNewBooks' = <<>>
    /\ dCreated' = <<>>
    /\ dPc' = "while"
    /\ UNCHANGED <<dBooks, dJobs, dLimit, dDryRun>>
    /\ DFrame

DNext ==
    \/ LimitReached
    \/ FetchPage
    \/ CheckExisting
    \/ CreateJob
    \/ NextPage
    \/ ProcessJob
    \/ RunAgain

-----------------------------------------------------------------------------
(* routes/public.ts: GET /content/*, one request.  tIn is c.req.path, tCur  *)
(* the string at hand (rawKey, then key), tSegs is resolved, tSeg the index  *)
(* of the segment the for loop is at.                                        *)

MaxPathLen == 5

\* the characters a request path is made of after /content/
PathChars == {46, 47, 97}

RECURSIVE PathsOfLen(_)
PathsOfLen(n) ==
    IF n = 0 THEN {<<>>}
    ELSE {Append(p, c) : p \in PathsOfLen(n - 1), c \in PathChars}

RequestPaths ==
    {<<47, 99, 111, 110, 116, 101, 110, 116, 47>> \o p : p \in UNION {PathsOfLen(n) : n \in 0..MaxPathLen}}    \* "/content/"

\* /^\/content\//
ContentPrefixRe ==
    Cat(<<Bol, Chars({47}), Chars({99}), Chars({111}), Chars({110}),
      Chars({116}), Chars({101}), Chars({110}), Chars({116}), Chars({47})>>)

\* String.prototype.split for a separator of one character
RECURSIVE split(_, _)
split(s, sep) ==
    IF indexOf(s, sep, 1) = 0 THEN <<s>>
    ELSE <<SubSeq(s, 1, indexOf(s, sep, 1) - 1)>>
            \o split(SubSeq(s, indexOf(s, sep, 1) + 1, Len(s)), sep)

\* Array.prototype.join for a separator of one character
RECURSIVE join(_, _)
join(segs, sep) ==
    IF segs = <<>> THEN <<>>
    ELSE IF Len(segs) = 1 THEN segs[1]
    ELSE join(SubSeq(segs, 1, Len(segs) - 1), sep) \o <<sep>> \o segs[Len(segs)]

\* const segments = rawKey.split('/')
segments == split(ReplaceFirst(tIn, ContentPrefixRe, <<>>), 47)

ContentInit ==
    /\ tFn = "GET /content/*"
    /\ tIn \in RequestPaths
    /\ tArg = tIn
    /\ tCur = ReplaceFirst(tIn, ContentPrefixRe, <<>>)
    /\ tPc = "for"
    /\ tRun = 1
    /\ tSegs = <<>>
    /\ tSeg = 1
    /\ tStep = ""

\* (a variant that keeps a '..' segment)
PopSegment_Keeps ==
    /\ tPc = "for"
    /\ tSeg <= Len(segments)
    /\ segments[tSeg] = <<46, 46>>    \* ".."
    /\ tSegs' = Append(tSegs, segments[tSeg])
    /\ tSeg' = tSeg + 1
    /\ UNCHANGED <<tFn, tIn, tArg, tCur, tPc, tRun, tStep>>
    /\ TFrame

\* if (seg === '..') resolved.pop(): nothing happens on an empty array
PopSegment ==
    /\ tPc = "for"
    /\ tSeg <= Len(segments)
    /\ segments[tSeg] = <<46, 46>>    \* ".."
    /\ tSegs' = IF tSegs = <<>> THEN <<>> ELSE SubSeq(tSegs, 1, Len(tSegs) - 1)
    /\ tSeg' = tSeg + 1
    /\ UNCHANGED <<tFn, tIn, tArg, tCur, tPc, tRun, tStep>>
    /\ TFrame

\* else if (seg !== '.' && seg !== '') resolved.push(seg)
PushSegment ==
    /\ tPc = "for"
    /\ tSeg <= Len(segments)
    /\ segments[tSeg] # <<46, 46>>    \* ".."
    /\ tSegs' = IF segments[tSeg] # <<46>> /\ segments[tSeg] # <<>>
                THEN Append(tSegs, segments[tSeg]) ELSE tSegs
    /\ tSeg' = tSeg + 1
    /\ UNCHANGED <<tFn, tIn, tArg, tCur, tPc, tRun, tStep>>
    /\ TFrame

\* const key = resolved.join('/'); if (!key) return c.json({...}, 400)
AnswerKeyRequired ==
    /\ tPc = "for"
    /\ tSeg > Len(segments)
    /\ join(tSegs, 47) = <<>>
    /\ tCur' = join(tSegs, 47)
    /\ tPc' = "400"
    /\ UNCHANGED <<tFn, tIn, tArg, tRun, tSegs, tSeg, tStep>>
    /\ TFrame

\* const object = await c.env.R2.get(key)
ReadObject ==
    /\ tPc = "for"
    /\ tSeg > Len(segments)
    /\ join(tSegs, 47) # <<>>
    /\ tCur' = join(tSegs, 47)
    /\ tPc' = "R2.get"
    /\ UNCHANGED <<tFn, tIn, tArg, tRun, tSegs, tSeg, tStep>>
    /\ TFrame

ContentNext ==
    \/ PopSegment
    \/ PushSegment
    \/ AnswerKeyRequired
    \/ ReadObject

-----------------------------------------------------------------------------
(* pg-sync-readmigo.ts: main(), one run of the sync script.                  *)

\* books the metadata store holds when the script starts
MaxSyncBooks == 2

\* a book row, as far as the script is concerned: status, synced_at (set or
\* NULL) and readmigo_book_id (0 for NULL)
BookRows ==
    { [status |-> "pending", syncedAt |-> FALSE, readmigoBookId |-> 0],
      [status |-> "ready", syncedAt |-> FALSE, readmigoBookId |-> 0],
      [status |-> "ready", syncedAt |-> TRUE, readmigoBookId |-> 0],
      [status |-> "approved", syncedAt |-> FALSE, readmigoBookId |-> 0],
      [status |-> "approved", syncedAt |-> TRUE, readmigoBookId |-> 0],
      [status |-> "rejected", syncedAt |-> FALSE, readmigoBookId |-> 0] }

\* GET /internal/books?status=..&unsynced=true&limit=..: the ids of the first
\* `limit` books with that status and synced_at IS NULL
UnsyncedBooks(books, status) ==
    SelectSeq([b \in 1..Len(books) |-> b],
              LAMBDA b : books[b].status = status /\ ~books[b].syncedAt)

ListUnsyncedBooks(books, status, limit) ==
    SubSeq(UnsyncedBooks(books, status), 1, Min2(limit, Len(UnsyncedBooks(books, status))))

GInit ==
    /\ gBooks \in [1..MaxSyncBooks -> BookRows]
    /\ gDryRun \in BOOLEAN
    /\ gLimit \in 1..MaxSyncBooks
    /\ gList = <<>>
    /\ gK = 1
    /\ gSynced = 0
    /\ gFailed = 0
    /\ gReadmigo = <<>>
    /\ gPc = "fetch"

GFrame == UNCHANGED <<qvars, pvars, bvars, svars, tvars, evars, kvars, dvars>>

\* http.get('/internal/books', { params: { status: 'ready', unsynced: 'true', limit: LIMIT } })
FetchBooks ==
    /\ gPc = "fetch"
    /\ gList' = ListUnsyncedBooks(gBooks, "ready", gLimit)
    /\ gPc' = "loop"
    /\ UNCHANGED <<gBooks, gDryRun, gLimit, gK, gSynced, gFailed, gReadmigo>>
    /\ GFrame

\* the request fails: process.exit(1)
FetchBooksFails ==
    /\ gPc = "fetch"
    /\ gPc' = "exit"
    /\ UNCHANGED <<gBooks, gDryRun, gLimit, gList, gK, gSynced, gFailed, gReadmigo>>
    /\ GFrame

\* if (DRY_RUN) { synced++; continue }
DryRunBook ==
    /\ gPc = "loop"
    /\ gK <= Len(gList)
    /\ gDryRun
    /\ gSynced' = gSynced + 1
    /\ gK' = gK + 1
    /\ UNCHANGED <<gBooks, gDryRun, gLimit, gList, gFailed, gReadmigo, gPc>>
    /\ GFrame

\* http.get(`/internal/books/${book.id}/chapters`) answers
FetchChapters ==
    /\ gPc = "loop"
    /\ gK <= Len(gList)
    /\ ~gDryRun
    /\ gPc' = "import"
    /\ UNCHANGED <<gBooks, gDryRun, gLimit, gList, gK, gSynced, gFailed, gReadmigo>>
    /\ GFrame

\* a request of the try block rejects: catch (err) { failed++ }, next book
RequestFails ==
    /\ \/ gPc = "loop" /\ gK <= Len(gList) /\ ~gDryRun
       \/ gPc \in {"import", "update"}
    /\ gFailed' = gFailed + 1
    /\ gK' = gK + 1
    /\ gPc' = "loop"
    /\ UNCHANGED <<gBooks, gDryRun, gLimit, gList, gSynced, gReadmigo>>
    /\ GFrame

\* readmigoApi.post('/books/gutenberg-import', ...) answers: Readmigo has the book
ImportBook ==
    /\ gPc = "import"
    /\ gReadmigo' = Append(gReadmigo, [book |-> gList[gK], row |-> gBooks[gList[gK]]])
    /\ gPc' = "update"
    /\ UNCHANGED <<gBooks, gDryRun, gLimit, gList, gK, gSynced, gFailed>>
    /\ GFrame

\* workerClient.updateBook(book.id, { readmigo_book_id, synced_at }); synced++
UpdateBook ==
    /\ gPc = "update"
    /\ gBooks' = [gBooks EXCEPT ![gList[gK]].syncedAt = TRUE,
                                ![gList[gK]].readmigoBookId = Len(gReadmigo)]
    /\ gSynced' = gSynced + 1
    /\ gK' = gK + 1
    /\ gPc' = "loop"
    /\ UNCHANGED <<gDryRun, gLimit, gList, gFailed, gReadmigo>>
    /\ GFrame

\* books.length === 0: return; or the loop is over and the totals are printed
SyncComplete ==
    /\ gPc = "loop"
    /\ gK > Len(gList)
    /\ gPc' = "done"
    /\ UNCHANGED <<gBooks, gDryRun, gLimit, gList, gK, gSynced, gFailed, gReadmigo>>
    /\ GFrame

GNext ==
    \/ FetchBooks
    \/ FetchBooksFails
    \/ DryRunBook
    \/ FetchChapters
    \/ RequestFails
    \/ ImportBook
    \/ UpdateBook
    \/ SyncComplete

-----------------------------------------------------------------------------
(* Specifications *)

\* the variables of the scorer while no call is made
QIdle ==
    /\ qBook = [wordCount |-> 0, hasCover |-> FALSE]
    /\ qChapters = <<>>
    /\ qResult = checkBookQuality(qBook, qChapters)
    /\ qLast = "init"
    /\ qPrev = qResult.score

\* the variables of processBook while no run is made
PIdle ==
    /\ pc = "idle"
    /\ jobId = ""
    /\ jobAttempts = null
    /\ tempFile = ""
    /\ fileOnDisk = FALSE
    /\ attempt = 1
    /\ epub = [cover |-> FALSE, images |-> 0, chapters |-> <<>>]
    /\ loop = [image |-> 1, chapter |-> 1, inline |-> 1]
    /\ err = NoError
    /\ completion = ""
    /\ outcome = "running"
    /\ trace = <<>>
    /\ jobRec = [status |-> "queued", attempts |-> 0, errorMessage |-> <<>>]

\* the variables of the batch driver while it does not run
BIdle ==
    /\ mainPc = "idle"
    /\ iter = 0
    /\ isShuttingDown = FALSE
    /\ processed = 0
    /\ failed = 0
    /\ queued = 0
    /\ started = <<>>
    /\ log = <<>>

\* the variables of splitHtmlSegments while no call is made
SIdle ==
    /\ sHtml = <<>>
    /\ sI = 1
    /\ sSegs = <<>>
    /\ sPc = "idle"

TIdle ==
    /\ tFn = "none"
    /\ tIn = <<>>
    /\ tArg = <<>>
    /\ tCur = <<>>
    /\ tPc = "idle"
    /\ tRun = 0
    /\ tSegs = <<>>
    /\ tSeg = 0
    /\ tStep = ""

EIdle ==
    /\ eToc = <<>>
    /\ eI = 1
    /\ eChapters = <<>>
    /\ eCleaned = <<>>
    /\ eEntries = <<>>
    /\ eCreated = <<>>
    /\ ePc = "idle"

GIdle ==
    /\ gBooks = <<>>
    /\ gDryRun = FALSE
    /\ gLimit = 0
    /\ gList = <<>>
    /\ gK = 1
    /\ gSynced = 0
    /\ gFailed = 0
    /\ gReadmigo = <<>>
    /\ gPc = "idle"

KIdle ==
    /\ kEpub = [cover |-> FALSE, images |-> <<>>, chapters |-> <<>>]
    /\ kCleaned = <<>>
    /\ kQuality = null
    /\ kI = 1
    /\ kJ = 1
    /\ kLog = <<>>
    /\ kDb = [book |-> <<>>, chapters |-> <<>>]
    /\ kPc = "idle"

DIdle ==
    /\ dBooks = {}
    /\ dJobs = <<>>
    /\ dLimit = 0
    /\ dDryRun = FALSE
    /\ dRun = 0
    /\ dPage = 1
    /\ dDiscovered = 0
    /\ dConsecutive = 0
    /\ dNewBooks = <<>>
    /\ dCreated = <<>>
    /\ dPc = "idle"

XIdle == SIdle /\ TIdle /\ EIdle /\ GIdle /\ KIdle /\ DIdle

QualityInit == QInit /\ PIdle /\ BIdle /\ XIdle

SpecQuality == QualityInit /\ [][QNext]_vars

ProcessInit == PInit /\ QIdle /\ BIdle /\ XIdle

SpecProcess == ProcessInit /\ [][PNext]_vars

BatchInit == BInit /\ QIdle /\ PIdle /\ XIdle

SpecBatch == BatchInit /\ [][BNext]_vars

CoreIdle == QIdle /\ PIdle /\ BIdle

SegmenterInit == SInit /\ CoreIdle /\ TIdle /\ EIdle /\ GIdle /\ KIdle /\ DIdle

\* a call that has started runs on: the loop is synchronous code
SpecSegmenter == SegmenterInit /\ [][SNext]_vars /\ WF_vars(SNext)

TransformInit == TInit /\ CoreIdle /\ SIdle /\ EIdle /\ GIdle /\ KIdle /\ DIdle

SpecTransform == TransformInit /\ [][TNext]_vars

\* cleanChapterHtml called on a chapter, then on what it returned
CleanTInit ==
    /\ tFn = "cleanChapterHtml"
    /\ tIn \in Concats(CleanTokens, MaxTokens)
    /\ tArg = tIn
    /\ tCur = tIn
    /\ tPc = Entry(tFn)
    /\ tRun = 1
    /\ tSegs = <<>>
    /\ tSeg = 0
    /\ tStep = ""

CleanInit == CleanTInit /\ CoreIdle /\ SIdle /\ EIdle /\ GIdle /\ KIdle /\ DIdle

SpecClean == CleanInit /\ [][CleanNext]_vars

HeadingsTInit ==
    /\ tFn = "normalizeHeadingLevels"
    /\ tIn \in Concats(HeadingTokens, MaxTokens)
    /\ tArg = tIn
    /\ tCur = tIn
    /\ tPc = Entry(tFn)
    /\ tRun = 1
    /\ tSegs = <<>>
    /\ tSeg = 0
    /\ tStep = ""

HeadingsInit == HeadingsTInit /\ CoreIdle /\ SIdle /\ EIdle /\ GIdle /\ KIdle /\ DIdle

SpecHeadings == HeadingsInit /\ [][HeadingsNext]_vars

ImagesTInit ==
    /\ tFn = "rewriteImagePaths"
    /\ tIn \in Concats(ImageTokens, MaxTokens)
    /\ tArg = tIn
    /\ tCur = tIn
    /\ tPc = "rewriteImagePaths"
    /\ tRun = 1
    /\ tSegs \in CaptionLists
    /\ tSeg = 0
    /\ tStep = ""

ImagesInit == ImagesTInit /\ CoreIdle /\ SIdle /\ EIdle /\ GIdle /\ KIdle /\ DIdle

SpecImages == ImagesInit /\ [][ImagesNext]_vars

PublishInit == KInit /\ CoreIdle /\ SIdle /\ TIdle /\ EIdle /\ GIdle /\ DIdle

SpecPublish == PublishInit /\ [][KNext]_vars

DiscoverInit == DInit /\ CoreIdle /\ SIdle /\ TIdle /\ EIdle /\ GIdle /\ KIdle

SpecDiscover == DiscoverInit /\ [][DNext]_vars

ContentRouteInit == ContentInit /\ CoreIdle /\ SIdle /\ EIdle /\ GIdle /\ KIdle /\ DIdle

SpecContent == ContentRouteInit /\ [][ContentNext]_vars

ChaptersInit == EInit /\ CoreIdle /\ SIdle /\ TIdle /\ GIdle /\ KIdle /\ DIdle

SpecChapters == ChaptersInit /\ [][ENext]_vars

SyncInit == GInit /\ CoreIdle /\ SIdle /\ TIdle /\ EIdle /\ KIdle /\ DIdle

SpecSync == SyncInit /\ [][GNext]_vars

-----------------------------------------------------------------------------
(* Claims about the quality scorer *)

\* C1: for every book and every list of chapters the score lies in 0..100 and
\* pass is true exactly when the score is at least 60.
C1_ScoreBounds ==
    /\ qResult.score \in 0..100
    /\ qResult.pass = (qResult.score >= 60)

\* a call where the penalties exceed 100 (five near-empty chapters among them)
C1_Witness ==
    /\ NearEmptyCount(qChapters) = 5
    /\ ExpectedPenalty(qBook, qChapters) > 100
    /\ qResult.score = 0
    /\ ~qResult.pass

\* the clean short story: 3 chapters of 600 words, book word count 1800, a
\* cover, pairwise distinct titles, no mojibake, no numbering gap
ShortStory ==
    /\ Len(qChapters) = 3
    /\ \A i \in 1..3 : qChapters[i].wordCount = 600
    /\ qBook.wordCount = 1800
    /\ qBook.hasCover
    /\ ~SigDuplicateTitles(qChapters)
    /\ ~SigMojibake(qChapters)
    /\ ~SigNumberingGap(qChapters)

\* C2 as stated: the clean short story scores 100, passes, and has no issue.
C2_ShortStoryScores100 ==
    ShortStory => /\ qResult.score = 100
                  /\ qResult.pass
                  /\ qResult.issues = <<>>

\* C2 amended: the clean short story scores 90 and passes, and its only issue
\* is the low word count (1800 is in the band 1000..4999).
C2_ShortStoryScores90 ==
    ShortStory => /\ qResult.score = 90
                  /\ qResult.pass
                  /\ qResult.issues = <<Issue("Low word count", <<1800>>)>>

C2_Witness == ShortStory /\ qLast = "append" /\ qResult.score = 90

\* C3: the score is clamp(100 - sum of the penalties of the triggered signals,
\* 0, 100), near-empty chapters counting 5 each and every other signal once,
\* and the issue list has one entry per triggered signal in evaluation order.
C3_ScoreIsClampedPenaltySum ==
    LET raw == 100 - ExpectedPenalty(qBook, qChapters)
    IN  /\ qResult.score = (IF raw < 0 THEN 0 ELSE IF raw > 100 THEN 100 ELSE raw)
        /\ IssueKinds(qResult) = ExpectedIssueKinds(qBook, qChapters)

\* five chapters, two of them sharing a title up to case and padding, the last
\* one truncated and two chapters near-empty
C3_Witness ==
    /\ Len(qChapters) = 5
    /\ SigDuplicateTitles(qChapters)
    /\ SigTruncated(qChapters)
    /\ NearEmptyCount(qChapters) = 2
    /\ qResult.score = 100 - ExpectedPenalty(qBook, qChapters)
    /\ qResult.score > 0

\* C4: making one more penalizable condition hold in arguments that trigger no
\* penalty, everything else held equal, never yields a higher score.
C4_Monotone == qLast = "degrade" => qResult.score <= qPrev

C4_Witness ==
    /\ qLast = "degrade"
    /\ ExpectedPenalty(qBook, qChapters) > 0
    /\ qResult.score < qPrev
-----------------------------------------------------------------------------
(* Claims about processBook *)

IsStatus(e) == e.ev = "updateJob"

\* the statuses the run reported, in order (whether or not the update got through)
ReportedStatuses ==
    LET r == SelectSeq(trace, IsStatus) IN [i \in 1..Len(r) |-> r[i].msg[1]]

StatusOrder == <<"downloading", "parsing", "cleaning", "uploading", "done">>

Terminated == pc = "exit"

\* C5: the statuses a run reports are, in order, a prefix of downloading,
\* parsing, cleaning, uploading, done, optionally followed by one failed; failed
\* comes only when done was not reported and nothing follows done or failed.
C5_StatusOrder ==
    \E k \in 0..5 :
        \/ ReportedStatuses = SubSeq(StatusOrder, 1, k)
        \/ k < 5 /\ ReportedStatuses = SubSeq(StatusOrder, 1, k) \o <<"failed">>

\* a run that failed while uploading, after four reports
C5_Witness ==
    /\ Terminated
    /\ outcome = "threw"
    /\ ReportedStatuses = <<"downloading", "parsing", "cleaning", "uploading", "failed">>

\* the calls other than status updates, with their outcomes
IsPipelineCall(e) == e.ev # "updateJob"

PipelineCalls == SelectSeq(trace, IsPipelineCall)

\* the statement each status update is followed by
AfterReport ==
    [reportDownloading |-> "fetch", reportParsing |-> "parse",
     reportCleaning |-> "clean", reportUploading |-> "uploadEpub",
     reportDone |-> "return", catch |-> "rethrow"]

\* the failed calls that make the run throw (a failed download only on the
\* last attempt, a failed unlinkSync never)
IsFatal(e) ==
    /\ e.ev \notin {"updateJob", "unlinkSync", "wait"}
    /\ IF e.ev = "fetchBookById" THEN ~e.ok \/ e.n = 0
       ELSE IF e.ev = "download" THEN ~e.ok /\ e.n = 3
       ELSE ~e.ok

StatusStepIsSwallowed ==
    pc \in DOMAIN AfterReport =>
        /\ pc' = AfterReport[pc]
        /\ SelectSeq(trace', IsPipelineCall) = SelectSeq(trace, IsPipelineCall)
        /\ UNCHANGED <<err, completion, outcome, tempFile, fileOnDisk, epub, loop>>

OnlyPipelineFailuresThrow ==
    Terminated =>
        LET calls == SelectSeq(PipelineCalls, LAMBDA e : e.ev # "unlinkSync")
            fatal == {i \in 1..Len(calls) : IsFatal(calls[i])}
        IN  /\ outcome = "threw" => fatal = {Len(calls)}
            /\ outcome = "returned" =>
                  /\ fatal = {}
                  /\ calls[Len(calls)].ev = "createChapters"

\* C6: status reporting is best-effort.  Whether a status update succeeds or
\* fails, the run goes on at the same statement with the same pipeline calls
\* made, the same error in hand and the same completion; a run throws only
\* when one pipeline call failed fatally, and that call is its last one before
\* the clean-up; a run returns only after every pipeline call succeeded (but for
\* retried downloads).
C6_StatusBestEffort == [][StatusStepIsSwallowed]_vars /\ []OnlyPipelineFailuresThrow

\* a run that returned although all five of its status updates failed
C6_Witness ==
    /\ Terminated
    /\ outcome = "returned"
    /\ Len(ReportedStatuses) = 5
    /\ \A i \in 1..Len(trace) : trace[i].ev = "updateJob" => ~trace[i].ok

\* the message of the error each failing call raises
MessageOfFailure(e) ==
    CASE e.ev = "fetchBookById" -> IF e.ok THEN {"No EPUB format available"}
                                   ELSE {"Book not found on Gutendex"}
      [] e.ev = "download" -> {"EPUB download failed after 3 attempts"}
      [] e.ev = "writeFileSync" -> {"write failed"}
      [] e.ev = "parseEpub" -> {"parse failed"}
      [] e.ev \in {"uploadEpub", "uploadCover", "uploadImage", "uploadInlineImage",
                   "uploadChapter"} -> {"upload failed"}
      [] e.ev = "createBook" -> {"createBook failed"}
      [] e.ev = "createChapters" -> {"createChapters failed"}
      [] OTHER -> {}

FailedReports == {i \in 1..Len(trace) : IsStatus(trace[i]) /\ trace[i].msg[1] = "failed"}

AttemptsIn == IF jobAttempts = null THEN 0 ELSE jobAttempts

\* what C7 says of a terminated run
FailureIsReported ==
    /\ outcome = "threw" =>
          /\ Cardinality(FailedReports) = 1
          /\ \A i \in FailedReports :
                /\ trace[i].msg[2] = err.message
                /\ trace[i].n = AttemptsIn + 1
          /\ "done" \notin {ReportedStatuses[i] : i \in 1..Len(ReportedStatuses)}
          /\ \E i \in 1..Len(trace) :
                IsFatal(trace[i]) /\ err.message \in MessageOfFailure(trace[i])
    /\ outcome = "returned" =>
          /\ jobRec.attempts = AttemptsIn
          /\ \A i \in 1..Len(trace) : IsStatus(trace[i]) => trace[i].n = null

\* C7 as stated: every run that fails reports status failed exactly once, with
\* the error message and attempts = (attempts passed in, or 0) + 1, never
\* reports done, and rethrows the original error; a run that succeeds leaves
\* the attempt counter alone.
C7_FailureReported == Terminated => FailureIsReported

\* C7 amended: the same for a run that was given a job id; a run without one
\* reports nothing (updateJobSafe returns at once) and still rethrows the
\* original error.
C7_FailureReportedForJob ==
    Terminated =>
        IF jobId # "" THEN FailureIsReported
        ELSE /\ ReportedStatuses = <<>>
             /\ outcome = "threw" =>
                   \E i \in 1..Len(trace) :
                       IsFatal(trace[i]) /\ err.message \in MessageOfFailure(trace[i])

\* a run with a job that failed at createBook with a response body, two
\* attempts already counted
C7_Witness ==
    /\ Terminated
    /\ jobId # ""
    /\ jobAttempts = 2
    /\ outcome = "threw"
    /\ err = HttpError("createBook failed", "response body")
    /\ \E i \in FailedReports :
          trace[i].n = 3 /\ trace[i].msg = <<"failed", "createBook failed", "response body">>

Downloads == {i \in 1..Len(trace) : trace[i].ev = "download"}

LaterSteps ==
    {"writeFileSync", "parseEpub", "uploadEpub", "uploadCover", "uploadImage",
     "uploadInlineImage", "uploadChapter", "createBook", "createChapters"}

\* C8: at most 3 download attempts; the first success ends the loop; a failed
\* attempt k in {1, 2} is followed by a wait of 3000 * k ms and then attempt
\* k + 1; a failed third attempt raises the download error with no further wait
\* or attempt; no later step starts unless an attempt succeeded.
C8_DownloadRetry ==
    /\ Cardinality(Downloads) <= 3
    /\ \A i \in Downloads :
          LET e == trace[i]
              k == e.n
          IN  /\ k = Cardinality({j \in Downloads : j <= i})
              /\ e.ok => \A j \in (i + 1)..Len(trace) : trace[j].ev \notin {"download", "wait"}
              /\ (~e.ok /\ k \in {1, 2}) =>
                    /\ i + 1 <= Len(trace) => trace[i + 1] = Event("wait", 3000 * k, TRUE, <<>>)
                    /\ i + 2 <= Len(trace) =>
                          trace[i + 2].ev = "download" /\ trace[i + 2].n = k + 1
                    /\ Terminated => i + 2 <= Len(trace)
              /\ (~e.ok /\ k = 3) =>
                    /\ \A j \in (i + 1)..Len(trace) :
                          trace[j].ev \notin {"download", "wait"} \cup LaterSteps
                    /\ pc # "catch" => pc \in {"rethrow", "finally", "exit"}
                    /\ err.message = "EPUB download failed after 3 attempts"
    /\ \A j \in 1..Len(trace) :
          (\/ trace[j].ev \in LaterSteps
           \/ IsStatus(trace[j]) /\ trace[j].msg[1] \in {"parsing", "cleaning", "uploading", "done"})
          => \E i \in Downloads : i < j /\ trace[i].ok
    /\ \A j \in 1..Len(trace) :
          trace[j].ev = "wait" => j > 1 /\ trace[j - 1].ev = "download" /\ ~trace[j - 1].ok

\* three failed attempts, with waits of 3000 and 6000 ms between them
C8_Witness ==
    /\ Terminated
    /\ outcome = "threw"
    /\ SelectSeq(trace, LAMBDA e : e.ev \in {"download", "wait"})
         = << Event("download", 1, FALSE, <<>>), Event("wait", 3000, TRUE, <<>>),
              Event("download", 2, FALSE, <<>>), Event("wait", 6000, TRUE, <<>>),
              Event("download", 3, FALSE, <<>>) >>

Unlinks == {i \in 1..Len(trace) : trace[i].ev = "unlinkSync"}

\* the write of the temporary file succeeded
TempFileWritten == \E i \in 1..Len(trace) : trace[i].ev = "writeFileSync" /\ trace[i].ok

\* the write left a file on disk (whole, or partial when it failed midway)
TempFileLeft == \E i \in 1..Len(trace) : trace[i].ev = "writeFileSync" /\ trace[i].n = 1

\* one removal, made in the finally block after the last status report
RemovalAttemptedOnce == Cardinality(Unlinks) = 1 /\ Unlinks = {Len(trace)}

\* C9 as stated: when processBook terminates after the temporary file was
\* written, the file has been removed, by one removal made in the finally block
\* after the failed/done status was reported; when no temporary file was written
\* no removal is attempted.
C9_TempFileRemoved ==
    Terminated =>
        /\ TempFileLeft => (RemovalAttemptedOnce /\ ~fileOnDisk)
        /\ ~TempFileLeft => Unlinks = {}

\* C9 amended: when processBook terminates after the temporary file was
\* written, its removal has been attempted exactly once, in the finally block
\* after the failed/done status was reported, and the file is gone unless that
\* removal itself failed (the failure is ignored); when no temporary file was
\* written no removal is attempted.
C9_TempFileRemovalAttempted ==
    Terminated =>
        /\ TempFileLeft =>
              /\ RemovalAttemptedOnce
              /\ fileOnDisk = ~trace[Len(trace)].ok
        /\ ~TempFileLeft => (Unlinks = {} /\ ~fileOnDisk)

\* a run that failed after writing the file, reported failed, then removed it
C9_Witness ==
    /\ Terminated
    /\ outcome = "threw"
    /\ TempFileWritten
    /\ Len(trace) >= 2
    /\ trace[Len(trace)] = Event("unlinkSync", 0, TRUE, <<>>)
    /\ IsStatus(trace[Len(trace) - 1])
    /\ trace[Len(trace) - 1].msg[1] = "failed"
    /\ ~fileOnDisk
-----------------------------------------------------------------------------
(* Claims about the batch driver *)

\* C10: once a shutdown signal has set the flag, no further processBook call
\* starts, at whatever point of the iteration the signal arrives (the book in
\* progress runs to completion).
C10_NoCallAfterSignal == \A k \in 1..Len(started) : ~started[k]

\* the positions of the log where an iteration of the loop begins
Iterations == {k \in 1..Len(log) : log[k] = "pull"}

LogCount(kinds) == Cardinality({k \in 1..Len(log) : log[k] \in kinds})

\* each failure is counted once and nothing else is counted as one
FailuresCounted ==
    /\ failed = LogCount({"pullFailed", "threw"})
    /\ processed = LogCount({"ok"})

\* a processBook call has settled before anything else happens
OneAtATime ==
    \A k \in 1..Len(log) :
        log[k] = "start" =>
            IF k = Len(log) THEN mainPc = "processing"
            ELSE log[k + 1] \in {"ok", "threw"}

DelayBetweenIterations ==
    \A a \in Iterations, b \in Iterations :
        a < b => \E k \in (a + 1)..(b - 1) : log[k] = "sleep"

\* the loop ends for one of its three reasons only
EndsOnlyWhenDue ==
    mainPc = "done" =>
        \/ isShuttingDown
        \/ Len(log) > 0 /\ log[Len(log)] = "empty"
        \/ Cardinality(Iterations) = MaxBooks

\* C11: a failure of processBook or of the pull is counted once and the loop
\* goes on (it ends only on MAX_BOOKS iterations, an empty queue or a shutdown
\* signal); one processBook call at a time; a sleep between any two
\* iterations; processed + failed <= MAX_BOOKS.
C11_FailureDoesNotAbort ==
    /\ FailuresCounted
    /\ OneAtATime
    /\ DelayBetweenIterations
    /\ EndsOnlyWhenDue
    /\ processed + failed <= MaxBooks

C11_Witness ==
    /\ mainPc = "done"
    /\ ~isShuttingDown
    /\ log = <<"pull", "start", "threw", "sleep", "pull", "pullFailed", "sleep",
               "pull", "start", "ok">>
    /\ failed = 2
    /\ processed = 1

-----------------------------------------------------------------------------
(* Claims about the HTML segmenter *)

SegConcat == Flatten([k \in 1..Len(sSegs) |-> sSegs[k].text])

\* the segments so far are the argument up to i; all of it after the return
RoundTrip ==
    /\ sPc = "loop" => SegConcat = SubSeq(sHtml, 1, sI - 1)
    /\ sPc = "done" => SegConcat = sHtml /\ sSegs = splitHtmlSegments(sHtml)

\* a tag segment runs from a '<' to the first '>' after it
TagShape ==
    \A k \in 1..Len(sSegs) :
        sSegs[k].isTag =>
            /\ Len(sSegs[k].text) >= 2
            /\ sSegs[k].text[1] = LT
            /\ sSegs[k].text[Len(sSegs[k].text)] = GT
            /\ \A j \in 1..(Len(sSegs[k].text) - 1) : sSegs[k].text[j] # GT

\* the '<' of the argument that no '>' follows
Unterminated == {q \in 1..Len(sHtml) : sHtml[q] = LT /\ indexOf(sHtml, GT, q) = 0}

\* the argument from its first unterminated '<' on is the last segment, as
\* text; no other text segment starts with '<'
UnterminatedLast ==
    sPc = "done" =>
        /\ Unterminated # {} =>
              /\ sSegs # <<>>
              /\ sSegs[Len(sSegs)]
                   = Segment(SubSeq(sHtml, Min(Unterminated), Len(sHtml)), FALSE)
        /\ \A k \in 1..Len(sSegs) :
              ~sSegs[k].isTag /\ sSegs[k].text[1] = LT
                  => k = Len(sSegs) /\ Unterminated # {}

\* an iteration of the loop ends it or moves i forward
SegProgress == sPc = "loop" => (sPc' = "done" \/ sI' > sI)

\* C12: for any string (empty, with an unterminated '<', with '>' outside a
\* tag) the loop terminates, the segments concatenated are the argument, a tag
\* segment runs from '<' to the first following '>', and an unterminated
\* '<...' is the final text segment.
C12_SegmenterRoundTrip ==
    /\ [](RoundTrip /\ TagShape /\ UnterminatedLast)
    /\ [][SegProgress]_vars
    /\ <>(sPc = "done")

\* "><a><": a '>' outside a tag, a tag, an unterminated '<'
C12_Witness ==
    /\ sPc = "done"
    /\ sHtml = <<GT, LT, 97, GT, LT>>
    /\ sSegs = <<Segment(<<GT>>, FALSE), Segment(<<LT, 97, GT>>, TRUE),
                 Segment(<<LT>>, FALSE)>>


-----------------------------------------------------------------------------
\* the text segments of an HTML string
TextSegments(html) == SelectSeq(splitHtmlSegments(html), LAMBDA seg : ~seg.isTag)

\* a hyphen that stands between two digits (spaces allowed around it)
HyphenBetweenDigits(text) ==
    \E p \in 2..(Len(text) - 1) :
        /\ text[p] = 45
        /\ \E a \in 1..(p - 1) :
              /\ IsDigit(text[a])
              /\ \A q \in (a + 1)..(p - 1) : IsSpace(text[q])
        /\ \E b \in (p + 1)..Len(text) :
              /\ IsDigit(text[b])
              /\ \A q \in (p + 1)..(b - 1) : IsSpace(text[q])

\* C19: typographize is idempotent, typographize(typographize(x)) =
\* typographize(x) for every input x, and after a single run no hyphen is left
\* between two digits of a text segment (a chain like 1-2-3 is converted whole).
C19_TypographizeIdempotent ==
    (tFn = "typographize" /\ tPc = "return") =>
        /\ tRun = 2 => tCur = tArg
        /\ \A k \in 1..Len(TextSegments(tCur)) :
              ~HyphenBetweenDigits(TextSegments(tCur)[k].text)

\* an apostrophe at index p of s that opens one of the words ws, which ends there
ApostropheBefore(s, p, ws) ==
    /\ s[p] = 39
    /\ \E w \in ws : MatchLit(s, p + 1, w) /\ WordBoundary(s, p + 1 + Len(w))

\* 'tis, 'twas, 'em at the start of the text or after whitespace
LeadingElision(s, p) ==
    /\ p = 1 \/ IsSpace(s[p - 1])
    /\ ApostropheBefore(s, p, {<<116, 105, 115>>, <<116, 119, 97, 115>>, <<101, 109>>})

\* n't, 's, 'd, 'll, 're, 've, 'm inside a word
Contraction(s, p) ==
    /\ p > 1 /\ IsWordChar(s[p - 1])
    /\ ApostropheBefore(s, p, {<<116>>, <<115>>, <<100>>, <<108, 108>>, <<114, 101>>,
                               <<118, 101>>, <<109>>})

\* '90s, '20
DecadeElision(s, p) ==
    /\ s[p] = 39
    /\ p + 2 <= Len(s) /\ IsDigit(s[p + 1]) /\ IsDigit(s[p + 2])
    /\ \/ WordBoundary(s, p + 3)
       \/ p + 3 <= Len(s) /\ s[p + 3] = 115 /\ WordBoundary(s, p + 4)

\* C20: smartQuotes turns every contraction or elision apostrophe (n't, 's, ...
\* inside a word; '90s; 'tis, 'twas, 'em at the start of the text or after
\* whitespace) into U+2019, never U+2018, and leaves no straight single or
\* double quote in the text segment.  (Stated for texts without entities, where
\* the result has the length of the argument.)
C20_ApostrophesAreRightQuotes ==
    (tFn = "smartQuotes" /\ tPc = "return" /\ tRun = 1 /\ (\A p \in 1..Len(tArg) : tArg[p] # 38)) =>
        /\ Len(tCur) = Len(tArg)
        /\ \A p \in 1..Len(tArg) :
              (LeadingElision(tArg, p) \/ Contraction(tArg, p) \/ DecadeElision(tArg, p))
                  => tCur[p] = 8217
        /\ \A p \in 1..Len(tCur) : tCur[p] \notin {34, 39}

\* the indices at which the text t occurs in s
Occurrences(s, t) == {i \in 1..(Len(s) - Len(t) + 1) : SubSeq(s, i, i + Len(t) - 1) = t}

\* "<abbr"
AbbrOpen == <<60, 97, 98, 98, 114>>

\* C14: semanticize(semanticize(x)) = semanticize(x): the second run adds no
\* second <section> wrapper, no second verse attribute and no second <abbr>
\* wrapper around an abbreviation the first run wrapped.
C14_SemanticizeIdempotent ==
    (tFn = "semanticize" /\ tPc = "return" /\ tRun = 2) =>
        /\ tCur = tArg
        /\ Cardinality(Occurrences(tCur, SectionOpen)) = Cardinality(Occurrences(tArg, SectionOpen))
        /\ Cardinality(Occurrences(tCur, VerseAttr)) = Cardinality(Occurrences(tArg, VerseAttr))
        /\ Cardinality(Occurrences(tCur, AbbrOpen)) = Cardinality(Occurrences(tArg, AbbrOpen))

\* the opening tags of emphasis elements, <i ...> and <em ...>, among the segments
EmphasisOpen(seg) ==
    /\ seg.isTag
    /\ \/ startsWith(toLowerCase(seg.text), <<LT, 105>>) /\ seg.text[3] \in {32, GT}
       \/ startsWith(toLowerCase(seg.text), <<LT, 101, 109>>) /\ seg.text[4] \in {32, GT}

EmphasisClose(seg) ==
    seg.isTag /\ toLowerCase(seg.text) \in {<<LT, 47, 105, GT>>, <<LT, 47, 101, 109, GT>>}

\* how many emphasis elements are open before segment k
EmphasisDepth(segs, k) ==
    Cardinality({j \in 1..(k - 1) : EmphasisOpen(segs[j])})
        - Cardinality({j \in 1..(k - 1) : EmphasisClose(segs[j])})

\* a language-tagged emphasis element opens inside another emphasis element
NestedLangEmphasis(segs) ==
    \E k \in 1..Len(segs) :
        /\ EmphasisOpen(segs[k])
        /\ Test(XmlLangRe, segs[k].text)
        /\ EmphasisDepth(segs, k) > 0

\* no tag carries the language attribute twice
OneLangAttribute(segs) ==
    \A k \in 1..Len(segs) :
        segs[k].isTag => Len(AllMatches(XmlLangRe, segs[k].text, 1)) <= 1

\* C18: what tagForeignPhrases returns has no language-tagged emphasis element
\* inside another emphasis element, no tag with two language attributes, and
\* is returned unchanged when tagForeignPhrases is applied to it
C18_ForeignWrapsOnlyPlainText ==
    (tFn = "tagForeignPhrases" /\ tPc = "return") =>
        /\ ~NestedLangEmphasis(splitHtmlSegments(tCur))
        /\ OneLangAttribute(splitHtmlSegments(tCur))
        /\ tRun = 2 => tCur = tArg

\* the tags of an HTML string, in order
TagTexts(html) ==
    [k \in 1..Len(SelectSeq(splitHtmlSegments(html), LAMBDA seg : seg.isTag)) |->
        SelectSeq(splitHtmlSegments(html), LAMBDA seg : seg.isTag)[k].text]

\* a is b with some elements left out
RECURSIVE IsSubseq(_, _)
IsSubseq(a, b) ==
    IF a = <<>> THEN TRUE
    ELSE IF b = <<>> THEN FALSE
    ELSE IF Head(a) = Head(b) THEN IsSubseq(Tail(a), Tail(b))
    ELSE IsSubseq(a, Tail(b))

\* the passes that rewrite text segments and insert no element
PlainTextPass ==
    \/ tFn = "typographize" /\ tPc = "transformTextNodes"
    \/ tFn = "modernizeSpelling" /\ tPc = "modernizeSpelling"

\* the passes that rewrite text segments and wrap parts of them in new elements
WrappingTextPass ==
    \/ tFn = "semanticize"
         /\ tPc \in {"wrapContextualRomanNumerals", "wrapAbbreviations", "markMeasurementUnits"}
    \/ tFn = "tagForeignPhrases" /\ tPc = "wrapStandaloneForeignPhrases"

C13_TextPassStep ==
    /\ PlainTextPass => TagTexts(tCur') = TagTexts(tCur)
    /\ WrappingTextPass => IsSubseq(TagTexts(tCur), TagTexts(tCur'))

CleanParagraph == <<60, 112, 62, 72, 101, 108, 108, 111, 60, 47, 112, 62>>

CleanDiv == <<60, 100, 105, 118, 62, 72, 105, 60, 47, 100, 105, 118, 62>>

\* <p>Produced by X</p>: a block element with a signature phrase
BoilerplateParagraph == <<60, 112, 62, 80, 114, 111, 100, 117, 99, 101, 100, 32, 98, 121, 32, 88, 60, 47, 112, 62>>

\* "Produced by"
SignaturePhrase == <<80, 114, 111, 100, 117, 99, 101, 100, 32, 98, 121>>

\* "***", the beginning of a start or end delimiter
Delimiter == <<42, 42, 42>>

\* C17: of an input without delimiters, cleanChapterHtml returns no part of a
\* boilerplate block and every block without a signature phrase, as often as
\* the input has it
C17_CleanerRemovesExactlyBoilerplate ==
    (/\ tFn = "cleanChapterHtml"
     /\ tPc = "return"
     /\ tRun = 1
     /\ Occurrences(tIn, Delimiter) = {}) =>
        /\ Occurrences(tCur, SignaturePhrase) = {}
        /\ \A b \in {CleanParagraph, CleanDiv} :
              Cardinality(Occurrences(tCur, b)) = Cardinality(Occurrences(tIn, b))

\* the items extractChapters keeps, in their order
KeptItems(items) ==
    SelectSeq([k \in 1..Len(items) |-> [k |-> k, item |-> items[k]]],
              LAMBDA e : /\ ~isSkippableChapter(TitleOf(e.item, e.k), e.item.href)
                         /\ ContentOf(Flow, e.item) >= 100)

\* C15: the chapters extractChapters has pushed carry the order values 1, 2, ...
\* without gap or repeat, and once it has returned they are the kept items of
\* the table of contents in their order; the chapter entries and the chapter
\* records processBook makes carry the same order values
C15_DenseChapterOrder ==
    /\ \A k \in 1..Len(eChapters) : eChapters[k].order = k
    /\ ePc \notin {"idle", "extractChapters"} =>
          /\ Len(eChapters) = Len(KeptItems(ItemsOf(eToc, Flow)))
          /\ \A k \in 1..Len(eChapters) :
                /\ eChapters[k].href = KeptItems(ItemsOf(eToc, Flow))[k].item.href
                /\ eChapters[k].title = TitleOf(KeptItems(ItemsOf(eToc, Flow))[k].item,
                                                KeptItems(ItemsOf(eToc, Flow))[k].k)
    /\ \A k \in 1..Len(eEntries) : eEntries[k].orderNum = k
    /\ ePc = "done" =>
          /\ Len(eCreated) = Len(eChapters)
          /\ \A k \in 1..Len(eCreated) : eCreated[k].orderNum = eChapters[k].order

\* a book whose table of contents has a skipped item between two kept ones, with
\* its chapter records created
C15_Witness ==
    /\ ePc = "done"
    /\ Len(eToc) = 3
    /\ Len(eChapters) = 2
    /\ ~isSkippableChapter(TitleOf(eToc[1], 1), eToc[1].href)
    /\ ContentOf(Flow, eToc[2]) < 100
    /\ eCreated[2].orderNum = 2

\* C16: every import Readmigo accepted was of a book whose status was approved
\* and that had no sync recorded, and a book's sync is recorded by the script
\* only after its import was accepted
C16_OnlyApprovedSynced ==
    /\ \A k \in 1..Len(gReadmigo) :
          /\ gReadmigo[k].row.status = "approved"
          /\ ~gReadmigo[k].row.syncedAt
    /\ \A b \in 1..Len(gBooks) :
          gBooks[b].readmigoBookId # 0 =>
              /\ gBooks[b].syncedAt
              /\ \E k \in 1..Len(gReadmigo) : gReadmigo[k].book = b

\* ---------------------------------------------------------------------------
\* C21  normalizeHeadingLevels
\* ---------------------------------------------------------------------------

\* the heading tags of a document, opening and closing, in document order
HeadingTagsIn(html) == AllMatches(HeadingTagRe, html, 1)

LevelOfTag(html, m) == Cap(html, m, 2)[1] - 48

IsOpeningTag(html, m) == Cap(html, m, 1) = <<>>

OpeningLevels(html) ==
    {LevelOfTag(html, HeadingTagsIn(html)[k]) :
        k \in {j \in 1..Len(HeadingTagsIn(html)) :
                  IsOpeningTag(html, HeadingTagsIn(html)[j])}}

\* the k-th heading tag of `out` is the k-th heading tag of `in` at level
\* min(L + 1, 6), with the same slash, the same attributes and the same text
\* in front of it
TagShiftedByOne(in, out, k) ==
    /\ LevelOfTag(out, HeadingTagsIn(out)[k])
          = Min2(LevelOfTag(in, HeadingTagsIn(in)[k]) + 1, 6)
    /\ Cap(out, HeadingTagsIn(out)[k], 1) = Cap(in, HeadingTagsIn(in)[k], 1)
    /\ Cap(out, HeadingTagsIn(out)[k], 3) = Cap(in, HeadingTagsIn(in)[k], 3)
    /\ Gap(out, HeadingTagsIn(out), k - 1) = Gap(in, HeadingTagsIn(in), k - 1)

AllTagsShiftedByOne(in, out) ==
    /\ Len(HeadingTagsIn(out)) = Len(HeadingTagsIn(in))
    /\ \A k \in 1..Len(HeadingTagsIn(in)) : TagShiftedByOne(in, out, k)
    /\ Gap(out, HeadingTagsIn(out), Len(HeadingTagsIn(out)))
          = Gap(in, HeadingTagsIn(in), Len(HeadingTagsIn(in)))

\* a closing tag that had the level of the opening tag before it still has it
ClosingKeepsLevelOfOpening(in, out) ==
    \A k \in 1..(Len(HeadingTagsIn(in)) - 1) :
        (/\ IsOpeningTag(in, HeadingTagsIn(in)[k])
         /\ ~IsOpeningTag(in, HeadingTagsIn(in)[k + 1])
         /\ LevelOfTag(in, HeadingTagsIn(in)[k])
               = LevelOfTag(in, HeadingTagsIn(in)[k + 1]))
        => LevelOfTag(out, HeadingTagsIn(out)[k])
               = LevelOfTag(out, HeadingTagsIn(out)[k + 1])

\* two headings that were at different levels are never swapped in rank
OrderNotInverted(in, out) ==
    \A j, k \in 1..Len(HeadingTagsIn(in)) :
        LevelOfTag(in, HeadingTagsIn(in)[j]) < LevelOfTag(in, HeadingTagsIn(in)[k])
        => LevelOfTag(out, HeadingTagsIn(out)[j])
               <= LevelOfTag(out, HeadingTagsIn(out)[k])

\* C21: when the smallest heading level of the input is 1, every opening and
\* closing heading tag of level L comes back at level min(L + 1, 6), so the
\* smallest level is 2, none is above 6 and a closing tag keeps the level of
\* its opening tag; when the smallest level is 2 or more, or there is no
\* heading, the HTML comes back unchanged; the order of two heading levels is
\* never inverted.
C21_HeadingLevelsShifted ==
    (tFn = "normalizeHeadingLevels" /\ tPc = "return")
    => IF OpeningLevels(tArg) # {} /\ Min(OpeningLevels(tArg)) = 1
       THEN /\ AllTagsShiftedByOne(tArg, tCur)
            /\ Min(OpeningLevels(tCur)) = 2
            /\ \A k \in 1..Len(HeadingTagsIn(tCur)) :
                  LevelOfTag(tCur, HeadingTagsIn(tCur)[k]) <= 6
            /\ ClosingKeepsLevelOfOpening(tArg, tCur)
            /\ OrderNotInverted(tArg, tCur)
       ELSE tCur = tArg

\* <h1>A</h1><h6>d</h6> has been normalised: the h1 is moved, the h6 is capped
C21_Witness ==
    /\ tFn = "normalizeHeadingLevels"
    /\ tPc = "return"
    /\ tRun = 1
    /\ 1 \in OpeningLevels(tArg)
    /\ 6 \in OpeningLevels(tArg)
    /\ tCur # tArg

\* ---------------------------------------------------------------------------
\* C23  rewriteImagePaths: captions in extraction order
\* ---------------------------------------------------------------------------

ImgTagsOf(html) == AllMatches(ImgTagRe, html, 1)

\* an alt attribute with a value, quoted or not
NonEmptyAltRe ==
    Cat(<<Chars(WhiteSpace), Chars({65, 97}), Chars({76, 108}), Chars({84,
      116}), Rep(Chars(WhiteSpace), 0, Inf), Chars({61}),
      Rep(Chars(WhiteSpace), 0, Inf), Alt(<<Cat(<<Chars({34}),
      Rep(NotChars({34}), 1, Inf), Chars({34})>>), Cat(<<Chars({39}),
      Rep(NotChars({39}), 1, Inf), Chars({39})>>),
      Rep(NotChars((WhiteSpace \cup {34, 39, 62})), 1, Inf)>>)>>)

\* the j-th image tag has a src and no non-empty alt
WantsCaption(html, j) ==
    /\ HasSrc(Cap(html, ImgTagsOf(html)[j], 1))
    /\ ~Test(NonEmptyAltRe, Cap(html, ImgTagsOf(html)[j], 0))

\* its place among the image tags that want a caption
CaptionRank(html, j) == Cardinality({i \in 1..j : WantsCaption(html, i)})

CarriesCaption(tag, caption) ==
    includes(tag, <<97, 108, 116, 61, 34>> \o escapeAttr(caption) \o <<34>>)    \* "alt=""

\* C23: the k-th image tag that has a src and no non-empty alt receives the
\* k-th caption as its alt; an image with a non-empty alt, or without a src,
\* keeps its tag and takes no caption; so no caption is applied twice and none
\* is consumed without being applied.
C23_CaptionsInExtractionOrder ==
    (tFn = "rewriteImagePaths" /\ tPc = "return")
    => /\ Len(ImgTagsOf(tCur)) = Len(ImgTagsOf(tIn))
       /\ \A j \in 1..Len(ImgTagsOf(tIn)) :
             IF WantsCaption(tIn, j) /\ CaptionRank(tIn, j) <= Len(tSegs)
             THEN CarriesCaption(Cap(tCur, ImgTagsOf(tCur)[j], 0),
                                 tSegs[CaptionRank(tIn, j)])
             ELSE \A c \in 1..Len(tSegs) :
                     ~CarriesCaption(Cap(tCur, ImgTagsOf(tCur)[j], 0), tSegs[c])

\* ---------------------------------------------------------------------------
\* C24  the skip-list of extractChapters
\* ---------------------------------------------------------------------------

\* the keywords the skip-list is described by
SkipListWords ==
    { <<99, 111, 108, 111, 112, 104, 111, 110>>, <<105, 109, 112, 114, 105, 110, 116>>, <<108, 105, 99, 101, 110, 115, 101>>, <<99, 111, 112, 121, 114, 105, 103, 104, 116>>, <<101, 110, 100, 110, 111, 116, 101, 115>>, <<99, 111, 118, 101, 114>>, <<116, 105, 116, 108, 101, 112, 97, 103, 101>> }    \* "colophon", "imprint", "license", "copyright", "endnotes", "cover", "titlepage"

TitleHasSkipWord(item, k) ==
    \E kw \in SkipListWords : includes(toLowerCase(TitleOf(item, k)), kw)

HrefHasSkipWord(item) ==
    \E kw \in SkipListWords : includes(toLowerCase(item.href), kw)

HrefHasCoverOrTitlepage(item) ==
    \E kw \in {<<99, 111, 118, 101, 114>>, <<116, 105, 116, 108, 101, 112, 97, 103, 101>>} : includes(toLowerCase(item.href), kw)    \* "cover", "titlepage"

\* no chapter was made of the item: it has no order number, it is not among the
\* cleaned chapters, not among the scored ones and not among the records
NoChapterOf(item, k) ==
    /\ \A j \in 1..Len(eChapters) :
          ~(eChapters[j].title = TitleOf(item, k) /\ eChapters[j].href = item.href)
    /\ \A j \in 1..Len(eCleaned) :
          ~(eCleaned[j].title = TitleOf(item, k) /\ eCleaned[j].href = item.href)
    /\ \A j \in 1..Len(ScoredChapters) :
          ~(ScoredChapters[j].title = TitleOf(item, k) /\ ScoredChapters[j].href = item.href)

\* the statement with the whole skip-list applied to the path as well
C24_SkippedByTitleOrHref ==
    \A k \in 1..Len(ItemsOf(eToc, Flow)) :
        (TitleHasSkipWord(ItemsOf(eToc, Flow)[k], k) \/ HrefHasSkipWord(ItemsOf(eToc, Flow)[k]))
        => NoChapterOf(ItemsOf(eToc, Flow)[k], k)

\* C24: extractChapters excludes a table-of-contents item whenever its title
\* contains a keyword of the skip-list (colophon, imprint, license, copyright,
\* endnotes, cover, titlepage) or its path contains cover or titlepage; such
\* an item never gets an order number, is never cleaned and never scored.
C24_SkippedByTitleOrCoverHref ==
    \A k \in 1..Len(ItemsOf(eToc, Flow)) :
        (\/ TitleHasSkipWord(ItemsOf(eToc, Flow)[k], k)
         \/ HrefHasCoverOrTitlepage(ItemsOf(eToc, Flow)[k]))
        => NoChapterOf(ItemsOf(eToc, Flow)[k], k)

\* a table of contents with "Colophon", with "Front" at cover.xhtml and with a
\* chapter that is kept has gone through extraction, cleaning and scoring
C24_Witness ==
    /\ ePc = "done"
    /\ Len(ScoredChapters) = 1
    /\ \E k \in 1..Len(eToc) : TitleHasSkipWord(eToc[k], k)
    /\ \E k \in 1..Len(eToc) : ~TitleHasSkipWord(eToc[k], k) /\ HrefHasCoverOrTitlepage(eToc[k])

\* ---------------------------------------------------------------------------
\* C22  the two passes over the chapters
\* ---------------------------------------------------------------------------

\* the stages of the first pass, in the order the chapter goes through them
StagesInOrder ==
    <<"extractIllustrationCaptions", "extractBase64Images", "cleanChapterHtml",
      "typographize", "modernizeSpelling", "semanticize", "tagForeignPhrases">>

IsSecondPassStage(st) == st \in {"replaceBase64Placeholders", "rewriteImagePaths"}

HasStage(stages, st) == \E i \in 1..Len(stages) : stages[i] = st

\* the log holds a successful put of this content
Uploaded(what) ==
    \E i \in 1..Len(kLog) : kLog[i].ev = "put" /\ kLog[i].what = what /\ kLog[i].ok

\* the first pass of every chapter is the seven stages in their order, and
\* nothing of the second pass is in between
FirstPassInOrder ==
    \A k \in 1..Len(kCleaned) :
        /\ Len(kCleaned[k].stages) >= 7
        /\ SubSeq(kCleaned[k].stages, 1, 7) = StagesInOrder
        /\ \A i \in 8..Len(kCleaned[k].stages) : IsSecondPassStage(kCleaned[k].stages[i])

\* a chapter is in its second pass only when every chapter has been through
\* the first and the URLs of the uploads are known
SecondPassAfterFirst ==
    \A k \in 1..Len(kCleaned) :
        Len(kCleaned[k].stages) > 7
        => /\ Len(kCleaned) = Len(kEpub.chapters)
           /\ \A j \in 1..Len(kEpub.images) : Uploaded(<<"manifest", j, 0>>)
           /\ HasStage(kCleaned[k].stages, "replaceBase64Placeholders")
                 => \A j \in 1..Len(kCleaned[k].base64Images) :
                        Uploaded(<<"base64", k, j - 1>>)

\* what was uploaded for a chapter is its HTML as it is after the second pass
UploadedAfterSecondPass ==
    \A i \in 1..Len(kLog) :
        (kLog[i].ev = "put" /\ kLog[i].what[1] = "chapter")
        => /\ kLog[i].body = kCleaned[kLog[i].what[2]].stages
           /\ (Len(kCleaned[kLog[i].what[2]].base64Images) > 0
                  => HasStage(kLog[i].body, "replaceBase64Placeholders"))
           /\ (Len(kEpub.images) > 0 => HasStage(kLog[i].body, "rewriteImagePaths"))

\* C22: every chapter goes through extract captions, extract base64 images,
\* content cleaner, typography, spelling, semantic enhancer, foreign tagger in
\* this order; image path rewriting and placeholder resolution run in a second
\* pass that starts only after every chapter has finished the first pass and
\* the upload URLs are known; the HTML uploaded for a chapter is the HTML after
\* the second pass.
C22_TwoPassesInOrder ==
    /\ FirstPassInOrder
    /\ SecondPassAfterFirst
    /\ UploadedAfterSecondPass

\* a book with a manifest image and two chapters, one with a base64 image, has
\* been processed to the end
C22_Witness ==
    /\ kPc = "returned"
    /\ Len(kEpub.images) > 0
    /\ Len(kCleaned) = 2
    /\ \E k \in 1..2 : HasStage(kCleaned[k].stages, "replaceBase64Placeholders")
    /\ Uploaded(<<"chapter", 2, 0>>)

\* ---------------------------------------------------------------------------
\* C25  what has happened when the job is reported done
\* ---------------------------------------------------------------------------

\* the uploads of the base64 images of the chapters, chapter by chapter
Base64Uploads ==
    Flatten([c \in 1..Len(kEpub.chapters) |->
                [j \in 1..Len(kEpub.chapters[c].base64) |-> <<"base64", c, j - 1>>]])

\* the calls a finished run has made, in the order of the statement
CallsOfAFinishedRun ==
    << <<"epub", 0, 0>> >>
    \o (IF kEpub.cover THEN << <<"cover", 0, 0>> >> ELSE <<>>)
    \o [j \in 1..Len(kEpub.images) |-> <<"manifest", j, 0>>]
    \o Base64Uploads
    \o [c \in 1..Len(kEpub.chapters) |-> <<"chapter", c, 0>>]
    \o << <<"book", 0, 0>>, <<"chapters", Len(kEpub.chapters), 201>> >>

ReportsDone(i) == kLog[i].ev = "updateJob" /\ kLog[i].what[1] = "done"

\* C25: the job is reported done only after, in this order, the EPUB, the
\* cover (when there is one), every manifest and inline image and every
\* chapter's final HTML were uploaded, the book record was created and the
\* chapter records were created; chapter records never exist without the book
\* record; the chapter records are one per processed chapter.
C25_DoneOnlyAfterEverything ==
    /\ \A i \in 1..Len(kLog) :
          ReportsDone(i)
          => /\ [j \in 1..(i - 1) |-> kLog[j].what] = CallsOfAFinishedRun
             /\ \A j \in 1..(i - 1) : kLog[j].ok
             /\ \A j \in 1..(i - 1) :
                   kLog[j].what[1] = "chapter"
                   => kLog[j].body = kCleaned[kLog[j].what[2]].stages
             /\ Len(kDb.chapters) = Len(kEpub.chapters)
             /\ \A c \in 1..Len(kDb.chapters) :
                   /\ kDb.chapters[c].orderNum = kEpub.chapters[c].order
                   /\ kDb.chapters[c].title = kEpub.chapters[c].title
    /\ Len(kDb.chapters) > 0 => Len(kDb.book) = 1
    /\ \A i, j \in 1..Len(kLog) :
          (kLog[i].ev = "createChapters" /\ kLog[j].ev = "createBook") => j < i

\* a book with a cover, a manifest image and two chapters with a base64 image
\* each has been reported done
C25_Witness ==
    /\ kPc = "returned"
    /\ kEpub.cover
    /\ Len(kEpub.images) > 0
    /\ Len(kEpub.chapters) = 2
    /\ Len(Base64Uploads) = 2
    /\ ReportsDone(Len(kLog))
    /\ kLog[Len(kLog)].ok

\* ---------------------------------------------------------------------------
\* C26  the book record's status and the chapters' quality flags
\* ---------------------------------------------------------------------------

\* the chapters of this run as the scorer is given them
RunChapters ==
    [k \in 1..Len(kEpub.chapters) |->
        [title |-> kEpub.chapters[k].title, wordCount |-> kEpub.chapters[k].words,
         htmlContent |-> H_Clean]]

RunBook == [wordCount |-> totalWordCount(kCleaned), hasCover |-> kEpub.cover]

\* C26: the book record's status is ready exactly when the quality verdict is
\* pass (score >= 60) and pending otherwise; the score and the issues stored
\* are the scorer's for this run's chapters; a chapter's quality-ok flag is 0
\* exactly for the chapters the scorer counts as near-empty (fewer than 50
\* words after cleaning).
C26_StatusFollowsQuality ==
    /\ Len(kDb.book) = 1
       => /\ kDb.book[1].status = (IF kDb.book[1].qualityScore >= 60
                                   THEN "ready" ELSE "pending")
          /\ kDb.book[1].qualityScore = 100 - ExpectedPenalty(RunBook, RunChapters)
          /\ kDb.book[1].qualityScore = checkBookQuality(RunBook, RunChapters).score
          /\ kDb.book[1].qualityIssues = checkBookQuality(RunBook, RunChapters).issues
          /\ IssueKinds(checkBookQuality(RunBook, RunChapters))
                = ExpectedIssueKinds(RunBook, RunChapters)
    /\ \A c \in 1..Len(kDb.chapters) :
          /\ kDb.chapters[c].qualityOk \in {0, 1}
          /\ kDb.chapters[c].qualityOk = 0 <=> NearEmptyCount(<<RunChapters[c]>>) = 1
    /\ Len(kDb.chapters) > 0
       => Cardinality({c \in 1..Len(kDb.chapters) : kDb.chapters[c].qualityOk = 0})
             = NearEmptyCount(RunChapters)

\* a book that passed has been recorded with a 40-word chapter and a 50-word
\* chapter
C26_Witness ==
    /\ Len(kDb.book) = 1
    /\ kDb.book[1].status = "ready"
    /\ Len(kDb.chapters) = 2
    /\ \E c \in 1..2 : kDb.chapters[c].qualityOk = 0
    /\ \E c \in 1..2 : kDb.chapters[c].wordCount = 50 /\ kDb.chapters[c].qualityOk = 1

\* ---------------------------------------------------------------------------
\* C27  storage keys of the images of one run
\* ---------------------------------------------------------------------------

IsImagePut(i) ==
    /\ kLog[i].ev = "put"
    /\ kLog[i].ok
    /\ kLog[i].what[1] \in {"manifest", "base64"}

\* C27: within one run no two distinct images are uploaded under the same
\* storage key: base64 images of different chapters and manifest images with
\* different hrefs each get their own key under books/{id}/images/.
C27_DistinctImagesDistinctKeys ==
    \A i, j \in 1..Len(kLog) :
        (IsImagePut(i) /\ IsImagePut(j) /\ kLog[i].what # kLog[j].what)
        => kLog[i].key # kLog[j].key

\* ---------------------------------------------------------------------------
\* C28  a book without chapters
\* ---------------------------------------------------------------------------

\* no call of the run failed for a reason of its own: every call succeeded, or
\* was createChapters answered 400
NothingFailedButValidation ==
    \A i \in 1..Len(kLog) :
        kLog[i].ok \/ (kLog[i].ev = "createChapters" /\ kLog[i].what[3] = 400)

\* C28: a book of which no chapter survived extraction is processed to the
\* end: it is scored ('No chapters extracted', fail), its record is created
\* with status pending, the chapter-creation step succeeds with nothing to
\* create, and the job ends done rather than failed.
C28_EmptyBookEndsDone ==
    (/\ kEpub.chapters = <<>>
     /\ kPc \in {"returned", "threw"}
     /\ NothingFailedButValidation)
    => /\ kPc = "returned"
       /\ Len(kDb.book) = 1
       /\ kDb.book[1].status = "pending"
       /\ \E i \in 1..Len(kLog) : kLog[i].ev = "createChapters" /\ kLog[i].ok
       /\ ReportsDone(Len(kLog))

\* ---------------------------------------------------------------------------
\* C29  discovery and duplicate jobs
\* ---------------------------------------------------------------------------

\* C29: across runs of pg-discover, with or without processing in between, no
\* Gutenberg id is given a second job, no job is created for an id that has a
\* book record, and a run creates at most DISCOVER_LIMIT jobs.
C29_NeverEnqueuesDuplicate ==
    /\ \A i, j \in 1..Len(dJobs) : i # j => dJobs[i] # dJobs[j]
    /\ Len(dCreated) <= dLimit

\* ---------------------------------------------------------------------------
\* C30  the storage key of GET /content/*
\* ---------------------------------------------------------------------------

\* the key between two slashes: a '..', '.' or empty segment of the key shows
\* as /../, /./ or // in it
Slashed(key) == <<47>> \o key \o <<47>>

\* C30: the key given to R2.get has no '..' segment, no '.' segment and no
\* empty segment, whatever the path holds; when the resolved key is empty the
\* route answers 400 and reads nothing from the store.
C30_KeyHasNoDotSegment ==
    /\ (tFn = "GET /content/*" /\ tPc = "R2.get")
       => /\ tCur # <<>>
          /\ ~includes(Slashed(tCur), <<47, 46, 46, 47>>)    \* "/../"
          /\ ~includes(Slashed(tCur), <<47, 46, 47>>)    \* "/./"
          /\ ~includes(Slashed(tCur), <<47, 47>>)    \* "//"
    /\ (tFn = "GET /content/*" /\ tPc = "400") => tCur = <<>>
    /\ (tFn = "GET /content/*" /\ tSegs = <<>>) => tPc # "R2.get"

\* the store is read for a path that held a '..' segment, a '.' segment and an
\* empty segment
C30_Witness ==
    /\ tFn = "GET /content/*"
    /\ tPc = "R2.get"
    /\ \E i \in 1..Len(segments) : segments[i] = <<46, 46>>    \* ".."
    /\ \E i \in 1..Len(segments) : segments[i] = <<46>> \/ segments[i] = <<>>

====
